---- MODULE Spec2Model ----
(***************************************************************************)
(* Model of the retrieval-augmented answer pipeline of CodeBase-QA-Agent:  *)
(* the FAISS/SQLite VectorStore and its manager, the resilient Embedder    *)
(* and the EmbeddingService, the QueryService state machine and the        *)
(* snippet extractor.                                                      *)
(***************************************************************************)
EXTENDS Integers, Sequences, FiniteSets, TLC

VARIABLES
    repo_id,     \* the repository identifier the modelled store belongs to
    active_dim,  \* embedding_dimension of the process-wide embedder
    vs,          \* the in-memory VectorStore object (index, connection view)
    disk,        \* persisted artifacts: .faiss, .meta.json, _metadata.db
    vs_last,     \* outcome of the last VectorStore operation
    nops,        \* number of VectorStore operations performed so far
    found,       \* what the last search returned (until the next operation)
    other,       \* the VectorStore of the same repository in another manager
    cfg,         \* settings and environment of the process (embed mode, key, ...)
    emb,         \* the process-wide Embedder (core/embeddings.py), None at start
    svc,         \* an EmbeddingService (services/embedding.py)
    emb_last,    \* outcome of the last embed call
    emb_hist,    \* history of the Embedder: failures seen, remote requests issued
    q,           \* the QueryService.query call in progress
    q_resp,      \* what that call returned (or raised)
    snip,        \* an extract_snippet call: its arguments and its result
    va,          \* a validate_answer call: its arguments and its result
    sm,          \* a search_multiple call: the stores' answers and its result
    second,      \* a second repository of the same manager: its id, store, files
    ing,         \* an IngestionService._process_files call in progress
    cit,         \* a generate_answer call: retrieved chunks, answer, citations
    chk,         \* a chunk_file call: the file's lines and the chunks returned
    mk           \* deterministic-embedding calls made on two embedders

storeVars == <<repo_id, active_dim, vs, disk, vs_last, nops, found, other>>
embVars == <<cfg, emb, svc, emb_last, emb_hist>>
queryVars == <<q, q_resp>>
moreVars == <<second, ing, cit, chk, mk>>
notSecond == <<ing, cit, chk, mk>>
notIngest == <<second, cit, chk, mk>>
notCite == <<second, ing, chk, mk>>
notChunk == <<second, ing, cit, mk>>
notMock == <<second, ing, cit, chk>>
callVars == <<snip, va, sm, moreVars>>
vars == <<repo_id, active_dim, vs, disk, vs_last, nops, found, other, cfg, emb, svc, emb_last, emb_hist,
          q, q_resp, snip, va, sm, second, ing, cit, chk, mk>>

----------------------------------------------------------------------------
(* Bounds of the model                                                     *)

MaxRows == 2
MaxBatch == 2
MaxOps == 4
MaxTexts == 2
MaxRemoteCalls == 2
MaxK == 2
MaxRepos == 2
FileLines == 20
LineLen == 100
MaxFiles == 12
MaxRetrieved == 2
MaxRefs == 2
MaxLines == 4
MaxMockCalls == 2

(* Program constants                                                       *)

DimLocal == 384
DimMock == 384
SettingsEmbeddingDimension == 1536
DimRemote == 1536
HashPairs == 16
RetryExtraK == 2
SnippetContextLines == 6
SnippetMaxChars == 1200
IngestBatchSize == 10
AvgTokensPerLine == 10

Dims == {DimLocal, SettingsEmbeddingDimension}
Dirs == {1}

Min(a, b) == IF a < b THEN a ELSE b
Max(a, b) == IF a > b THEN a ELSE b

----------------------------------------------------------------------------
(* Chunks and vectors                                                      *)

\* CodeChunk: content_hash is the md5 of the content, so two chunks with the
\* same content (in one file or in two files) share it.
ChunkSet ==
    { [content_hash |-> "h1", path |-> "a.py"],
      [content_hash |-> "h2", path |-> "a.py"] }

NoChunk == [content_hash |-> "none", path |-> "none"]

ChunkBatches == UNION { [1..n -> ChunkSet] : n \in 0..MaxBatch }

\* np.array(embeddings, dtype=np.float32): a batch of n vectors of one length
EmbBatches ==
    UNION { { [j \in 1..n |-> [dim |-> d, dir |-> f[j]]] : f \in [1..n -> Dirs] }
            : <<n, d>> \in (0..MaxBatch) \X Dims }

BatchDim(embs) == embs[1].dim

\* VectorStore._normalize_vectors: divides every vector by its norm; the
\* length of a vector and its direction are kept
NormalizeVectors(embs) == [j \in 1..Len(embs) |-> [dim |-> embs[j].dim, dir |-> embs[j].dir]]

----------------------------------------------------------------------------
(* Repository identifiers and file names                                   *)

RepoIds == { <<"o", "/", "r">>, <<"o", "_", "r">> }

\* repo_id.replace('/', '_')
FileBase(id) == [i \in 1..Len(id) |-> IF id[i] = "/" THEN "_" ELSE id[i]]

\* filename[:-5].replace('_', '/') in _scan_existing_stores
ScanRepoId(base) == [i \in 1..Len(base) |-> IF base[i] = "_" THEN "/" ELSE base[i]]

----------------------------------------------------------------------------
(* The catalog (table chunks of the SQLite database)                       *)

\* embedding_id = f"{chunk.content_hash}_{i}"
EmbeddingId(chunk, i) == <<chunk.content_hash, i>>

CatalogRow(chunk, i, base_row) ==
    [embedding_id |-> EmbeddingId(chunk, i), chunk |-> chunk, faiss_row |-> base_row + i]

\* INSERT OR REPLACE INTO chunks: a row with the same primary key is removed
InsertOrReplace(db, row) ==
    { r \in db : r.embedding_id # row.embedding_id } \cup { row }

\* the for loop of add_chunks over the first n chunks (i = 0 .. n-1)
RECURSIVE InsertChunks(_, _, _, _)
InsertChunks(db, chunks, n, base_row) ==
    IF n = 0 THEN db
    ELSE InsertOrReplace(InsertChunks(db, chunks, n - 1, base_row),
                         CatalogRow(chunks[n], n - 1, base_row))

\* index.add(embeddings_array): rows are appended in input order; src is a
\* history field naming the chunk passed at the same offset of the call
IndexRows(chunks, embs) ==
    [j \in 1..Len(embs) |->
        [dim |-> embs[j].dim, dir |-> embs[j].dir,
         src |-> IF j <= Len(chunks) THEN chunks[j] ELSE NoChunk]]

----------------------------------------------------------------------------
(* Construction and load                                                   *)

ClosedStore ==
    [open |-> FALSE, embedding_dimension |-> 0, index_d |-> 0, index |-> <<>>, db |-> {}]

\* the store of another manager: its own index object; its catalog is the
\* database file both connections share
ClosedOther == [open |-> FALSE, embedding_dimension |-> 0, index_d |-> 0, index |-> <<>>]

EmptyDisk ==
    [index |-> [exists |-> FALSE, d |-> 0, rows |-> <<>>],
     meta  |-> [exists |-> FALSE, dim |-> 0],
     db    |-> {}]

\* VectorStore._create_index: a new empty index of the store's dimension,
\* and _save_meta writes the sidecar
CreateIndex(dim, dk) ==
    [vs   |-> [open |-> TRUE, embedding_dimension |-> dim, index_d |-> dim,
               index |-> <<>>, db |-> dk.db],
     disk |-> [dk EXCEPT !.meta = [exists |-> TRUE, dim |-> dim]]]

\* VectorStore._load_index: the ValueError raised on a sidecar mismatch and a
\* failure of faiss.read_index are both caught, and _create_index runs
LoadIndex(dim, dk, readFails) ==
    IF (dk.meta.exists /\ dk.meta.dim # dim) \/ readFails
    THEN CreateIndex(dim, dk)
    ELSE [vs   |-> [open |-> TRUE, embedding_dimension |-> dim,
                    index_d |-> dk.index.d, index |-> dk.index.rows, db |-> dk.db],
          disk |-> dk]

\* VectorStore.__init__ / _initialize with embedding_dimension = dim
VectorStoreInit(dim, dk, readFails) ==
    IF dk.index.exists THEN LoadIndex(dim, dk, readFails) ELSE CreateIndex(dim, dk)

----------------------------------------------------------------------------
(* VectorStore operations                                                  *)

NoSearch == [op |-> "none", query |-> [dim |-> 0, dir |-> 0], k |-> 0, status |-> "ok",
             results |-> <<>>]

\* points of add_chunks at which a step of the call can fail: the
\* normalisation, the cursor.execute of the k-th chunk, the commit, the save
AddFaults(chunks) ==
    { <<"none", 0>>, <<"normalize", 0>>, <<"commit", 0>>, <<"save", 0>> }
        \cup { <<"insert", k>> : k \in 1..Len(chunks) }

\* What the caller of an operation observes, and what the operation did:
\* in_dim is the length of the vectors an add_chunks call went on to add (0
\* when it returned before), vs_kept / disk_kept tell whether the in-memory
\* store / the persisted artifacts are as they were before the call, lens
\* is <<len(chunks), len(embeddings)>> of an add_chunks call
Outcome(op, status, ret, fault, in_dim, mismatch, clean, lens, newvs, newdisk) ==
    [op |-> op, status |-> status, ret |-> ret, fault |-> fault,
     in_dim |-> in_dim, mismatch |-> mismatch, clean |-> clean, lens |-> lens,
     vs_kept |-> (newvs = vs), disk_kept |-> (newdisk = disk)]

\* faiss.write_index(self.index, self.index_path) followed by _save_meta();
\* an exception of either is caught and logged by _save_index
SaveIndex(dk, index_d, index, dim, fails) ==
    IF fails THEN dk
    ELSE [dk EXCEPT !.index = [exists |-> TRUE, d |-> index_d, rows |-> index],
                    !.meta  = [exists |-> TRUE, dim |-> dim]]

\* (variant of IndexAccepts: an index that takes vectors of any length)
IndexAccepts_any(index_d, embs) == TRUE

\* index.add(embeddings_array): the index accepts only vectors of its own
\* dimension d and raises otherwise
IndexAccepts(index_d, embs) == BatchDim(embs) = index_d

\* (variant of AddChunksResult: no early return for two empty lists, the
\* call goes on to commit and to save the index)
AddChunksResult_noearly(chunks, embs, fault, k) ==
    LET base_row == Len(vs.index)
        normed   == NormalizeVectors(embs)
        index2   == vs.index \o IndexRows(chunks, normed)
        n        == IF fault = "insert" THEN k - 1 ELSE Len(chunks)
        db2      == InsertChunks(vs.db, chunks, n, base_row)
        vs2      == [vs EXCEPT !.index = index2, !.db = db2]
        disk2    == SaveIndex([disk EXCEPT !.db = db2], vs.index_d, index2,
                              vs.embedding_dimension, fault = "save")
        same     == Len(chunks) = Len(embs)
    IN  IF chunks = <<>> /\ embs = <<>>
        THEN [vs |-> vs, disk |-> disk2, status |-> "ok", ret |-> 0, in_dim |-> 0,
              clean |-> vs_last.clean]
        ELSE IF chunks = <<>> \/ embs = <<>>
        THEN [vs |-> vs, disk |-> disk, status |-> "ok", ret |-> 0, in_dim |-> 0,
              clean |-> vs_last.clean]
        ELSE IF fault = "normalize"
        THEN [vs |-> vs, disk |-> disk, status |-> "error", ret |-> 0, in_dim |-> 0,
              clean |-> FALSE]
        ELSE IF ~IndexAccepts(vs.index_d, normed)
        THEN [vs |-> vs, disk |-> disk, status |-> "error", ret |-> 0,
              in_dim |-> BatchDim(normed), clean |-> vs_last.clean]
        ELSE IF fault \in {"insert", "commit"}
        THEN [vs |-> vs2, disk |-> disk, status |-> "error", ret |-> 0,
              in_dim |-> BatchDim(normed), clean |-> FALSE]
        ELSE [vs |-> vs2, disk |-> disk2, status |-> "ok", ret |-> Len(chunks),
              in_dim |-> BatchDim(normed),
              clean |-> vs_last.clean /\ same /\ fault = "none"]

\* VectorStore.add_chunks(chunks, embeddings); fault / k name the step that
\* raises (k: the cursor.execute of the k-th chunk).  r is the call's result:
\* the new store, the new persisted state and what the caller observes.
AddChunksResult(chunks, embs, fault, k) ==
    LET base_row == Len(vs.index)
        normed   == NormalizeVectors(embs)
        index2   == vs.index \o IndexRows(chunks, normed)
        n        == IF fault = "insert" THEN k - 1 ELSE Len(chunks)
        db2      == InsertChunks(vs.db, chunks, n, base_row)
        vs2      == [vs EXCEPT !.index = index2, !.db = db2]
        disk2    == SaveIndex([disk EXCEPT !.db = db2], vs.index_d, index2,
                              vs.embedding_dimension, fault = "save")
        same     == Len(chunks) = Len(embs)
    IN  IF chunks = <<>> \/ embs = <<>>
        THEN [vs |-> vs, disk |-> disk, status |-> "ok", ret |-> 0, in_dim |-> 0,
              clean |-> vs_last.clean]
        ELSE IF fault = "normalize"
        THEN [vs |-> vs, disk |-> disk, status |-> "error", ret |-> 0, in_dim |-> 0,
              clean |-> FALSE]
        ELSE IF ~IndexAccepts(vs.index_d, normed)
        THEN [vs |-> vs, disk |-> disk, status |-> "error", ret |-> 0,
              in_dim |-> BatchDim(normed), clean |-> vs_last.clean]
        ELSE IF fault \in {"insert", "commit"}
        THEN [vs |-> vs2, disk |-> disk, status |-> "error", ret |-> 0,
              in_dim |-> BatchDim(normed), clean |-> FALSE]
        ELSE [vs |-> vs2, disk |-> disk2, status |-> "ok", ret |-> Len(chunks),
              in_dim |-> BatchDim(normed),
              clean |-> vs_last.clean /\ same /\ fault = "none"]

AddChunks(chunks, embs, fault, k) ==
    /\ vs.open
    /\ nops < MaxOps
    /\ nops' = nops + 1
    /\ Len(vs.index) + Len(embs) <= MaxRows
    /\ (chunks = <<>> \/ embs = <<>>) => fault = "none"
    /\ fault \in {"insert", "commit", "save"} => IndexAccepts(vs.index_d, NormalizeVectors(embs))
    /\ LET r == AddChunksResult(chunks, embs, fault, k)
       IN  /\ vs' = r.vs
           /\ disk' = r.disk
           /\ vs_last' = Outcome("add", r.status, r.ret, fault, r.in_dim, FALSE, r.clean,
                                 <<Len(chunks), Len(embs)>>, r.vs, r.disk)
    /\ found' = NoSearch
    /\ UNCHANGED <<repo_id, active_dim, other>>
    /\ UNCHANGED <<embVars, queryVars, callVars>>

\* VectorStoreManager.get_store(repo_id): a store that is not in the
\* manager's dictionary is constructed with the embedder's dimension
GetStore(readFails) ==
    /\ ~vs.open
    /\ nops < MaxOps
    /\ nops' = nops + 1
    /\ disk.index.exists \/ ~readFails
    /\ LET r == VectorStoreInit(active_dim, disk, readFails)
       IN  /\ vs' = r.vs
           /\ disk' = r.disk
           /\ vs_last' = Outcome("load", "ok", 0, IF readFails THEN "read" ELSE "none", 0,
                                 disk.index.exists /\ disk.meta.exists
                                    /\ disk.meta.dim # active_dim,
                                 vs_last.clean /\ ~readFails, <<0, 0>>, r.vs, r.disk)
    /\ found' = NoSearch
    /\ UNCHANGED <<repo_id, active_dim, other>>
    /\ UNCHANGED <<embVars, queryVars, callVars>>

\* A new process: the in-memory store is gone and the open transaction of its
\* connection is rolled back; the embedder of the new process has dimension
\* dim.  VectorStoreManager.__init__ runs _scan_existing_stores, which
\* constructs a store for every *.faiss file under the identifier it derives
\* from the file name, with the dimension read from the sidecar.
Restart(dim, readFails) ==
    /\ vs.open
    /\ nops < MaxOps
    /\ nops' = nops + 1
    /\ active_dim' = dim
    /\ LET scanned == disk.index.exists /\ ScanRepoId(FileBase(repo_id)) = repo_id
           sdim    == IF disk.meta.exists THEN disk.meta.dim ELSE SettingsEmbeddingDimension
           r       == VectorStoreInit(sdim, disk, readFails)
       IN  IF scanned
           THEN /\ vs' = r.vs
                /\ disk' = r.disk
                /\ vs_last' = Outcome("load", "ok", 0, IF readFails THEN "read" ELSE "none",
                                      0, disk.meta.exists /\ disk.meta.dim # dim,
                                      vs_last.clean /\ ~readFails, <<0, 0>>, r.vs, r.disk)
           ELSE /\ ~readFails
                /\ vs' = ClosedStore
                /\ vs_last' = Outcome("restart", "ok", 0, "none", 0, FALSE, vs_last.clean,
                                      <<0, 0>>, ClosedStore, disk)
                /\ UNCHANGED disk
    /\ found' = NoSearch
    /\ other' = ClosedOther
    /\ UNCHANGED repo_id
    /\ UNCHANGED <<embVars, queryVars, callVars>>

\* get_store(repo_id) of another VectorStoreManager of the process (each
\* service constructs its own manager): a second VectorStore on the same files
GetStoreOther ==
    /\ ~other.open
    /\ nops < MaxOps
    /\ nops' = nops + 1
    /\ LET r == VectorStoreInit(active_dim, disk, FALSE)
       IN  /\ other' = [open |-> TRUE, embedding_dimension |-> r.vs.embedding_dimension,
                        index_d |-> r.vs.index_d, index |-> r.vs.index]
           /\ disk' = r.disk
           /\ vs_last' = Outcome("load_other", "ok", 0, "none", 0, FALSE, vs_last.clean,
                                 <<0, 0>>, vs, r.disk)
    /\ found' = NoSearch
    /\ UNCHANGED <<repo_id, active_dim, vs>>
    /\ UNCHANGED <<embVars, queryVars, callVars>>

\* add_chunks(chunks, embeddings) on the store of the other manager, no step
\* failing: base_row and index.add are on that store's own index, the catalog
\* rows go to the shared database (the first store's connection sees them
\* once committed) and _save_index overwrites the shared .faiss file
AddChunksOther(chunks, embs) ==
    /\ other.open
    /\ nops < MaxOps
    /\ nops' = nops + 1
    /\ Len(other.index) + Len(embs) <= MaxRows
    /\ chunks # <<>> /\ embs # <<>>
    /\ IndexAccepts(other.index_d, NormalizeVectors(embs))
    /\ LET base_row == Len(other.index)
           index2   == other.index \o IndexRows(chunks, NormalizeVectors(embs))
           db2      == InsertChunks(disk.db, chunks, Len(chunks), base_row)
           disk2    == SaveIndex([disk EXCEPT !.db = db2], other.index_d, index2,
                                 other.embedding_dimension, FALSE)
       IN  /\ other' = [other EXCEPT !.index = index2]
           /\ disk' = disk2
           /\ vs' = IF vs.open THEN [vs EXCEPT !.db = db2] ELSE vs
           /\ vs_last' = Outcome("add_other", "ok", Len(chunks), "none", BatchDim(embs), FALSE,
                                 vs_last.clean /\ Len(chunks) = Len(embs),
                                 <<Len(chunks), Len(embs)>>, vs, disk2)
    /\ found' = NoSearch
    /\ UNCHANGED <<repo_id, active_dim>>
    /\ UNCHANGED <<embVars, queryVars, callVars>>

\* The store-facing part of QueryService.query for the repository, on the
\* query service's own VectorStoreManager: get_store (which constructs the
\* store only when the identifier is not yet a key of that manager), the test
\* store.index.ntotal == 0, and search_multiple on that store's index.
\* status is "no_index" for the early return, ret the ntotal the call saw.
QueryOnStore ==
    /\ nops < MaxOps
    /\ nops' = nops + 1
    /\ LET r  == VectorStoreInit(active_dim, disk, FALSE)
           st == IF other.open THEN other
                 ELSE [open |-> TRUE, embedding_dimension |-> r.vs.embedding_dimension,
                       index_d |-> r.vs.index_d, index |-> r.vs.index]
           dk == IF other.open THEN disk ELSE r.disk
       IN  /\ other' = st
           /\ disk' = dk
           /\ vs_last' = Outcome("query", IF Len(st.index) = 0 THEN "no_index" ELSE "ok",
                                 Len(st.index), "none", 0, FALSE, vs_last.clean, <<0, 0>>,
                                 vs, dk)
    /\ found' = NoSearch
    /\ UNCHANGED <<repo_id, active_dim, vs>>
    /\ UNCHANGED <<embVars, queryVars, callVars>>

\* the files delete_repo removes, in its order; removed is how many of them
\* were removed when the call ended (all of them, or those before the
\* os.remove that raised)
DeleteOrder == <<"index", "db", "meta">>

RemoveFiles(dk, removed) ==
    [index |-> IF removed >= 1 THEN [exists |-> FALSE, d |-> 0, rows |-> <<>>] ELSE dk.index,
     db    |-> IF removed >= 2 THEN {} ELSE dk.db,
     meta  |-> IF removed >= 3 THEN [exists |-> FALSE, dim |-> 0] ELSE dk.meta]

\* VectorStoreManager.delete_repo(repo_id): VectorStore.delete_repo closes
\* the connection and removes the files, an exception is caught and logged,
\* and the store is taken out of the manager's dictionary
DeleteRepo(removed) ==
    /\ vs.open
    /\ nops < MaxOps
    /\ nops' = nops + 1
    /\ vs' = ClosedStore
    /\ disk' = RemoveFiles(disk, removed)
    /\ vs_last' = Outcome("delete", "ok", 0,
                          IF removed = Len(DeleteOrder) THEN "none" ELSE "remove", 0, FALSE,
                          vs_last.clean, <<0, 0>>, ClosedStore, RemoveFiles(disk, removed))
    /\ found' = NoSearch
    /\ UNCHANGED <<repo_id, active_dim, other>>
    /\ UNCHANGED <<embVars, queryVars, callVars>>

\* the inner product of two unit vectors, as a rank: the same direction
\* scores highest (1.0), another direction lower
Score(a, b) == IF a.dir = b.dir THEN 2 ELSE 1

\* index.search(query_array, k) of IndexFlatIP: the vector must have the
\* index's dimension and k must be positive, else the call raises
IndexSearchAccepts(index_d, query, k) == query.dim = index_d /\ k >= 1

\* what index.search(query_array, kk) can return on the rows of index: kk
\* distinct row numbers (0-based) in descending order of score, none of the
\* rows left out scoring higher than a row returned; the order among rows of
\* equal score is the library's
Rankings(index, query, kk) ==
    LET n == Len(index)
        sc(i) == Score(query, index[i + 1])
    IN  { o \in [1..kk -> 0..(n - 1)] :
            /\ \A a, b \in 1..kk : a < b => (o[a] # o[b] /\ sc(o[a]) >= sc(o[b]))
            /\ \A i \in 0..(n - 1) :
                  (\A a \in 1..kk : o[a] # i) => \A a \in 1..kk : sc(i) <= sc(o[a]) }

\* cursor.fetchone() of SELECT ... WHERE faiss_row = ? for every row: one of
\* the catalog entries with that faiss_row, or nothing (NoChunk)
Fetches(db, n) ==
    { p \in [0..(n - 1) -> ChunkSet \cup {NoChunk}] :
        \A i \in 0..(n - 1) :
            LET es == { r \in db : r.faiss_row = i }
            IN  IF es = {} THEN p[i] = NoChunk ELSE \E r \in es : p[i] = r.chunk }

\* the loop of search over zip(scores[0], indices[0]): a result for every row
\* returned that has a catalog entry, in the order returned
SearchResults(index, query, o, p) ==
    SelectSeq([j \in 1..Len(o) |->
                  [row |-> o[j], score |-> Score(query, index[o[j] + 1]), chunk |-> p[o[j]]]],
              LAMBDA x : x.chunk # NoChunk)

\* (variant of SearchOutcomes: no early return for an index without rows)
SearchOutcomes_noearly(index, index_d, db, query, k) ==
    IF ~IndexSearchAccepts(index_d, query, Min(k, Len(index)))
    THEN { [status |-> "error", results |-> <<>>] }
    ELSE { [status |-> "ok", results |-> SearchResults(index, query, o, p)] :
             o \in Rankings(index, query, Min(k, Len(index))), p \in Fetches(db, Len(index)) }

\* VectorStore.search(query_embedding, k): how the call can end
SearchOutcomes(index, index_d, db, query, k) ==
    IF Len(index) = 0 THEN { [status |-> "ok", results |-> <<>>] }
    ELSE IF ~IndexSearchAccepts(index_d, query, Min(k, Len(index)))
    THEN { [status |-> "error", results |-> <<>>] }
    ELSE { [status |-> "ok", results |-> SearchResults(index, query, o, p)] :
             o \in Rankings(index, query, Min(k, Len(index))), p \in Fetches(db, Len(index)) }

Search(query, k) ==
    /\ vs.open
    /\ found.op = "none"
    /\ \E r \in SearchOutcomes(vs.index, vs.index_d, vs.db, query, k) :
          /\ found' = [op |-> "search", query |-> query, k |-> k, status |-> r.status,
                       results |-> r.results]
          /\ vs_last' = Outcome("search", r.status, Len(r.results), "none", 0, FALSE,
                                vs_last.clean, <<0, 0>>, vs, disk)
    /\ UNCHANGED <<repo_id, active_dim, vs, disk, nops, other>>
    /\ UNCHANGED <<embVars, queryVars, callVars>>

NoOutcome ==
    [op |-> "init", status |-> "ok", ret |-> 0, fault |-> "none",
     in_dim |-> 0, mismatch |-> FALSE, clean |-> TRUE, lens |-> <<0, 0>>,
     vs_kept |-> TRUE, disk_kept |-> TRUE]

\* a process with no store constructed and nothing persisted
InitStore ==
    /\ vs = ClosedStore
    /\ disk = EmptyDisk
    /\ nops = 0
    /\ vs_last = NoOutcome
    /\ found = NoSearch
    /\ other = ClosedOther

----------------------------------------------------------------------------
(* A second repository in the same VectorStoreManager                      *)

SecondRepoIds == RepoIds \cup { <<"p", "/", "r">> }

NoSecond == [repo_id |-> <<"p", "/", "r">>, store |-> ClosedOther, files |-> EmptyDisk]

\* VectorStore.__init__: index_path, metadata_path and meta_path are built
\* from repo_id.replace('/', '_'); a store whose identifier has the file base
\* of the first repository is a store on the first repository's files
SharesFiles(id) == FileBase(id) = FileBase(repo_id)

SecondFiles == IF SharesFiles(second.repo_id) THEN disk ELSE second.files

\* the second repository after an operation left its store as st and the
\* files under its paths as dk
SecondAfter(st, dk) ==
    IF SharesFiles(second.repo_id)
    THEN [second EXCEPT !.store = st]
    ELSE [second EXCEPT !.store = st, !.files = dk]

\* get_store(second.repo_id): the identifier is not a key of the manager's
\* dictionary, so a VectorStore is constructed on the paths of its file base
GetStoreSecond ==
    /\ ~second.store.open
    /\ nops < MaxOps
    /\ nops' = nops + 1
    /\ LET r  == VectorStoreInit(active_dim, SecondFiles, FALSE)
           st == [open |-> TRUE, embedding_dimension |-> r.vs.embedding_dimension,
                  index_d |-> r.vs.index_d, index |-> r.vs.index]
           dk == IF SharesFiles(second.repo_id) THEN r.disk ELSE disk
       IN  /\ second' = SecondAfter(st, r.disk)
           /\ disk' = dk
           /\ vs_last' = Outcome("load_second", "ok", 0, "none", 0, FALSE, vs_last.clean,
                                 <<0, 0>>, vs, dk)
    /\ found' = NoSearch
    /\ UNCHANGED <<repo_id, active_dim, vs, other>>
    /\ UNCHANGED <<embVars, queryVars, snip, va, sm, notSecond>>

\* add_chunks(chunks, embeddings) on the store of the second repository, no
\* step failing: the catalog rows go to the database under its paths and
\* _save_index writes the .faiss file and the sidecar under its paths
AddChunksSecond(chunks, embs) ==
    /\ second.store.open
    /\ nops < MaxOps
    /\ nops' = nops + 1
    /\ Len(second.store.index) + Len(embs) <= MaxRows
    /\ chunks # <<>> /\ embs # <<>>
    /\ Len(chunks) = Len(embs)
    /\ IndexAccepts(second.store.index_d, NormalizeVectors(embs))
    /\ LET st       == second.store
           base_row == Len(st.index)
           index2   == st.index \o IndexRows(chunks, NormalizeVectors(embs))
           db2      == InsertChunks(SecondFiles.db, chunks, Len(chunks), base_row)
           files2   == SaveIndex([SecondFiles EXCEPT !.db = db2], st.index_d, index2,
                                 st.embedding_dimension, FALSE)
           shared   == SharesFiles(second.repo_id)
           dk       == IF shared THEN files2 ELSE disk
           vs2      == IF shared /\ vs.open THEN [vs EXCEPT !.db = db2] ELSE vs
       IN  /\ second' = SecondAfter([st EXCEPT !.index = index2], files2)
           /\ disk' = dk
           /\ vs' = vs2
           /\ vs_last' = Outcome("add_second", "ok", Len(chunks), "none", BatchDim(embs),
                                 FALSE, vs_last.clean, <<Len(chunks), Len(embs)>>, vs2, dk)
    /\ found' = NoSearch
    /\ UNCHANGED <<repo_id, active_dim, other>>
    /\ UNCHANGED <<embVars, queryVars, snip, va, sm, notSecond>>

\* VectorStoreManager.delete_repo(second.repo_id): the three files under the
\* paths of the second repository are removed and its key is deleted
DeleteRepoSecond ==
    /\ second.store.open
    /\ nops < MaxOps
    /\ nops' = nops + 1
    /\ LET files2 == RemoveFiles(SecondFiles, Len(DeleteOrder))
           dk     == IF SharesFiles(second.repo_id) THEN files2 ELSE disk
       IN  /\ second' = SecondAfter(ClosedOther, files2)
           /\ disk' = dk
           /\ vs_last' = Outcome("delete_second", "ok", 0, "none", 0, FALSE, vs_last.clean,
                                 <<0, 0>>, vs, dk)
    /\ found' = NoSearch
    /\ UNCHANGED <<repo_id, active_dim, vs, other>>
    /\ UNCHANGED <<embVars, queryVars, snip, va, sm, notSecond>>

----------------------------------------------------------------------------
(* Settings and environment                                                *)

EmbedModes == {"auto", "openai", "local", "mock"}

\* openai_api_key: empty, the placeholder "dummy-key-for-testing", a key the
\* remote service rejects, or a key it accepts
ApiKeys == {"empty", "dummy", "invalid", "valid"}

\* local_ok: sentence_transformers and its model can be loaded;
\* openai_lib: the openai package can be imported and its client constructed
Cfgs == [embed_mode : EmbedModes, api_key : ApiKeys, local_ok : BOOLEAN, openai_lib : BOOLEAN]

\* config.py: embed_mode defaults to "auto"
DefaultCfg == [embed_mode |-> "auto", api_key |-> "valid", local_ok |-> TRUE, openai_lib |-> TRUE]

----------------------------------------------------------------------------
(* Embedder (core/embeddings.py)                                           *)

NoEmbedder ==
    [constructed |-> FALSE, mode |-> "none", embedding_dimension |-> 0,
     local_model |-> FALSE, openai_client |-> FALSE]

\* Embedder._init_local_model: a failure to load falls back to mock
InitLocalModel(e, c) ==
    IF c.local_ok THEN [e EXCEPT !.local_model = TRUE] ELSE [e EXCEPT !.mode = "mock"]

\* Embedder._init_openai_client: a failing import or a missing key falls
\* back to mock
InitOpenaiClient(e, c) ==
    IF ~c.openai_lib \/ c.api_key = "empty"
    THEN [e EXCEPT !.mode = "mock"]
    ELSE [e EXCEPT !.openai_client = TRUE]

\* Embedder.__init__ with EMBED_MODE = c.embed_mode
EmbedderNew(c) ==
    LET dim == IF c.embed_mode = "local" THEN DimLocal
               ELSE IF c.embed_mode = "mock" THEN DimMock
               ELSE SettingsEmbeddingDimension
        e0  == [constructed |-> TRUE, mode |-> c.embed_mode, embedding_dimension |-> dim,
                local_model |-> FALSE, openai_client |-> FALSE]
    IN  IF c.embed_mode = "local" THEN InitLocalModel(e0, c)
        ELSE IF c.embed_mode = "openai" THEN InitOpenaiClient(e0, c)
        ELSE IF c.embed_mode = "mock" THEN e0
        ELSE [e0 EXCEPT !.mode = "mock", !.embedding_dimension = DimMock]

\* Embedder._mock_vec(text, dim): a vector of dim numbers
MockVecLen(dim) == dim

\* how a request to the remote embedding API can end: with a key the service
\* rejects every request fails with an authorization error
RemoteOutcomes(c) ==
    IF c.api_key = "valid" THEN {"ok", "quota", "other"} ELSE {"auth", "other"}

\* "quota" in str(e).lower() or "insufficient_quota" in str(e).lower()
IsQuotaError(outcome) == outcome = "quota"

\* (variant of EmbedOpenai: the mode is left as it is after a quota error)
EmbedOpenai_keepmode(e, outcome) ==
    IF outcome = "ok"
    THEN [e |-> e, dim |-> DimRemote]
    ELSE [e |-> e, dim |-> MockVecLen(e.embedding_dimension)]

\* Embedder._embed_openai: the new embedder and the length of the vectors
EmbedOpenai(e, outcome) ==
    IF outcome = "ok"
    THEN [e |-> e, dim |-> DimRemote]
    ELSE [e   |-> IF IsQuotaError(outcome) THEN [e EXCEPT !.mode = "mock"] ELSE e,
          dim |-> MockVecLen(e.embedding_dimension)]

\* Embedder._embed_local: the local model's vectors, or mock vectors when
\* the model raises
EmbedLocal(e, outcome) ==
    IF outcome = "ok"
    THEN [e |-> e, dim |-> DimLocal]
    ELSE [e |-> e, dim |-> MockVecLen(e.embedding_dimension)]

\* get_embedder(): the global instance is constructed on first use
GetEmbedder ==
    /\ ~emb.constructed
    /\ emb' = EmbedderNew(cfg)
    /\ UNCHANGED <<cfg, svc, emb_last, emb_hist>>
    /\ UNCHANGED <<storeVars, queryVars, callVars>>

\* Embedder.embed_texts(texts) with n texts; outcome is how the backend call
\* of the current mode ends
EmbedTexts(n, outcome) ==
    /\ emb.constructed
    /\ LET remote == n > 0 /\ emb.mode = "openai"
           r == IF n = 0 \/ emb.mode = "mock" THEN [e |-> emb, dim |-> MockVecLen(emb.embedding_dimension)]
                ELSE IF emb.mode = "local" THEN EmbedLocal(emb, outcome)
                ELSE EmbedOpenai(emb, outcome)
       IN  /\ IF remote THEN outcome \in RemoteOutcomes(cfg)
              ELSE IF n > 0 /\ emb.mode = "local" THEN outcome \in {"ok", "other"}
              ELSE outcome = "ok"
           /\ remote => emb_hist.remote_calls < MaxRemoteCalls
           /\ emb' = r.e
           /\ emb_last' = [op |-> "embed", n |-> n, remote |-> remote,
                           outcome |-> outcome,
                           dims |-> IF n = 0 THEN {} ELSE {r.dim}]
           /\ emb_hist' = [quota |-> emb_hist.quota \/ (remote /\ outcome = "quota"),
                           auth  |-> emb_hist.auth \/ (remote /\ outcome = "auth"),
                           remote_calls |-> emb_hist.remote_calls + (IF remote THEN 1 ELSE 0)]
    /\ UNCHANGED <<cfg, svc>>
    /\ UNCHANGED <<storeVars, queryVars, callVars>>

----------------------------------------------------------------------------
(* EmbeddingService (services/embedding.py)                                *)

NoService ==
    [constructed |-> FALSE, use_openai |-> FALSE, use_local |-> FALSE, use_mock |-> TRUE,
     dimension |-> DimMock, raised |-> FALSE]

\* EmbeddingService._try_openai: TRUE when the remote mode was selected
TryOpenai(c) == ~(c.api_key = "empty" \/ c.api_key = "dummy") /\ c.openai_lib

\* EmbeddingService._try_local
TryLocal(c) == c.local_ok

UseOpenai(sv) == [sv EXCEPT !.use_openai = TRUE, !.use_mock = FALSE, !.dimension = DimRemote]
UseLocal(sv) == [sv EXCEPT !.use_local = TRUE, !.use_mock = FALSE, !.dimension = DimLocal]
UseMock(sv) ==
    [sv EXCEPT !.use_mock = TRUE, !.use_openai = FALSE, !.use_local = FALSE,
               !.dimension = DimMock]

\* EmbeddingService.__init__ / _initialize_embedding_service
ServiceNew(c) ==
    LET s0 == [NoService EXCEPT !.constructed = TRUE]
    IN  IF c.embed_mode = "auto"
        THEN IF TryOpenai(c) THEN UseOpenai(s0)
             ELSE IF TryLocal(c) THEN UseLocal(s0)
             ELSE UseMock(s0)
        ELSE IF c.embed_mode = "openai"
        THEN IF TryOpenai(c) THEN UseOpenai(s0) ELSE UseMock(s0)
        ELSE IF c.embed_mode = "local"
        THEN IF TryLocal(c) THEN UseLocal(s0) ELSE UseMock(s0)
        ELSE UseMock(s0)

\* EmbeddingService.get_mode
GetMode(sv) == IF sv.use_openai THEN "openai" ELSE IF sv.use_local THEN "local" ELSE "mock"

\* the while loop of _mock_embedding: the list of len numbers is extended by
\* a prefix of itself until it has dim numbers
RECURSIVE PadLen(_, _)
PadLen(len, dim) ==
    IF len < dim THEN PadLen(len + Min(len, dim - len), dim) ELSE len

\* EmbeddingService._mock_embedding: one number per pair of hex digits of the
\* md5 digest, padded, then embedding[:self.dimension]
MockEmbeddingLen(dim) == Min(PadLen(HashPairs, dim), dim)

ServiceInit ==
    /\ ~svc.constructed
    /\ svc' = ServiceNew(cfg)
    /\ UNCHANGED <<cfg, emb, emb_last, emb_hist>>
    /\ UNCHANGED <<storeVars, queryVars, callVars>>

\* EmbeddingService.embed_texts(texts) with n texts
ServiceEmbedTexts(n, outcome) ==
    /\ svc.constructed
    /\ LET remote == n > 0 /\ svc.use_openai
           dim == IF n > 0 /\ outcome = "ok" /\ svc.use_openai THEN DimRemote
                  ELSE IF n > 0 /\ outcome = "ok" /\ svc.use_local THEN DimLocal
                  ELSE MockEmbeddingLen(svc.dimension)
       IN  /\ IF remote THEN outcome \in RemoteOutcomes(cfg)
              ELSE IF n > 0 /\ svc.use_local THEN outcome \in {"ok", "other"}
              ELSE outcome = "ok"
           /\ emb_last' = [op |-> "svc_embed", n |-> n, remote |-> remote,
                           outcome |-> outcome,
                           dims |-> IF n = 0 THEN {} ELSE {dim}]
    /\ UNCHANGED <<cfg, emb, svc, emb_hist>>
    /\ UNCHANGED <<storeVars, queryVars, callVars>>

InitEmbedder ==
    /\ emb = NoEmbedder
    /\ svc = NoService
    /\ emb_last = [op |-> "init", n |-> 0, remote |-> FALSE, outcome |-> "ok", dims |-> {}]
    /\ emb_hist = [quota |-> FALSE, auth |-> FALSE, remote_calls |-> 0]

EmbedOutcomes == {"ok", "quota", "auth", "other"}

NextEmbedder ==
    \/ GetEmbedder
    \/ \E n \in 0..MaxTexts, outcome \in EmbedOutcomes : EmbedTexts(n, outcome)
    \/ ServiceInit
    \/ \E n \in 0..MaxTexts, outcome \in EmbedOutcomes : ServiceEmbedTexts(n, outcome)


----------------------------------------------------------------------------
(* QueryService.query (services/query.py) and the Answerer (services/rag.py) *)

NoResponse ==
    [kind |-> "none", citations |-> 0, snippets |-> 0, mode |-> "none", raised |-> FALSE]

IdleQuery ==
    [pc |-> "idle", k |-> 0, repos |-> 0, ntotal |-> 0, use_mock |-> TRUE, mock0 |-> TRUE,
     retrieved |-> 0, answer |-> [nonempty |-> FALSE, uncertain |-> FALSE, cites |-> FALSE],
     citations |-> 0, is_valid |-> FALSE, searches |-> 0, generates |-> 0,
     retried |-> FALSE, failed |-> "none"]

InitQuery ==
    /\ q = IdleQuery
    /\ q_resp = NoResponse

\* the early returns of query: an explanatory answer, no citations, no snippets
Explain(kind) ==
    [kind |-> kind, citations |-> 0, snippets |-> 0, mode |-> "none", raised |-> FALSE]

\* (variant of QueryExcept: no except clause, the exception leaves query)
QueryExcept_propagate ==
    [kind |-> "none", citations |-> 0, snippets |-> 0, mode |-> "none", raised |-> TRUE]

\* the except clause of query: "An error occurred while processing your
\* query: ..." with no citations and no snippets
QueryExcept == Explain("error")

\* a step raised: the except clause builds the response and query returns
Fail(step) ==
    /\ q' = [q EXCEPT !.pc = "done", !.failed = step]
    /\ q_resp' = QueryExcept

\* what VectorStoreManager.search_multiple can return for k on a store with
\* ntotal rows: a store's search asks the index for min(k, ntotal) rows (the
\* index refuses k < 1, the manager logs that and goes on), and rows without
\* a catalog entry are skipped
SearchCounts(repos, k, ntotal) ==
    IF repos = 0 \/ k < 1 THEN {0} ELSE 0..Min(k, ntotal)

\* the answers the model backend can produce: empty or not, with or without
\* an uncertainty phrase, naming one of its citations as path:start-end or not
Answers == [nonempty : BOOLEAN, uncertain : BOOLEAN, cites : BOOLEAN]

\* RAGService._mock_generate_answer: a fixed sentence and one citation per chunk
MockAnswer(n) ==
    [answer |-> [nonempty |-> TRUE, uncertain |-> FALSE, cites |-> FALSE], citations |-> n]

\* RAGService.generate_answer(question, chunks) on n chunks: how the call can
\* end, as (answer, number of citations, use_mock afterwards)
GenerateResults(n, use_mock) ==
    IF n = 0
    THEN { [answer |-> [nonempty |-> TRUE, uncertain |-> TRUE, cites |-> FALSE],
            citations |-> 0, use_mock |-> use_mock] }
    ELSE IF use_mock
    THEN { [answer |-> MockAnswer(n).answer, citations |-> n, use_mock |-> TRUE] }
    ELSE \* the model answered: _extract_citations yields the matched references,
         \* or every chunk when none matched
         { [answer |-> a, citations |-> c, use_mock |-> FALSE] :
               a \in { x \in Answers : x.cites => x.nonempty }, c \in 1..n }
         \* a quota error: switch to mock
         \cup { [answer |-> MockAnswer(n).answer, citations |-> n, use_mock |-> TRUE] }
         \* any other error: "Sorry, I encountered an error ..." and no citations
         \cup { [answer |-> [nonempty |-> TRUE, uncertain |-> FALSE, cites |-> FALSE],
                 citations |-> 0, use_mock |-> FALSE] }

\* RAGService.validate_answer(answer, citations)
ValidateAnswer(a, citations) ==
    IF ~a.nonempty THEN FALSE
    ELSE IF citations = 0 THEN FALSE
    ELSE IF a.uncertain THEN TRUE
    ELSE a.cites

\* a request arrives: k, the number of repositories named, the size of the
\* repository's index and the Answerer's mode (mock0 keeps the mode the call
\* started in)
QueryStart(k, repos, ntotal, use_mock) ==
    /\ q.pc = "idle"
    /\ q' = [IdleQuery EXCEPT !.pc = "precheck", !.k = k, !.repos = repos,
                              !.ntotal = ntotal, !.use_mock = use_mock,
                              !.mock0 = use_mock]
    /\ q_resp' = NoResponse
    /\ UNCHANGED <<storeVars, embVars, callVars>>

\* for repo_id in request.repo_ids: get_store, index.ntotal == 0
Precheck(fails) ==
    /\ UNCHANGED <<storeVars, embVars, callVars>>
    /\ q.pc = "precheck"
    /\ IF fails THEN q.repos > 0 /\ Fail("precheck")
       ELSE IF q.repos > 0 /\ q.ntotal = 0
       THEN /\ q' = [q EXCEPT !.pc = "done"]
            /\ q_resp' = Explain("no_index")
       ELSE /\ q' = [q EXCEPT !.pc = "embed"]
            /\ UNCHANGED q_resp

\* question_embedding = await embed_text(question); if not question_embedding
Embed(outcome) ==
    /\ UNCHANGED <<storeVars, embVars, callVars>>
    /\ q.pc = "embed"
    /\ IF outcome = "raise" THEN Fail("embed")
       ELSE IF outcome = "empty"
       THEN /\ q' = [q EXCEPT !.pc = "done"]
            /\ q_resp' = Explain("embed_failed")
       ELSE /\ q' = [q EXCEPT !.pc = "retrieve"]
            /\ UNCHANGED q_resp

\* retrieved_chunks = search_multiple(..., request.k); if not retrieved_chunks
Retrieve(r, fails) ==
    /\ UNCHANGED <<storeVars, embVars, callVars>>
    /\ q.pc = "retrieve"
    /\ r \in SearchCounts(q.repos, q.k, q.ntotal)
    /\ IF fails THEN Fail("retrieve")
       ELSE IF r = 0
       THEN /\ q' = [q EXCEPT !.pc = "done", !.searches = @ + 1]
            /\ q_resp' = Explain("no_results")
       ELSE /\ q' = [q EXCEPT !.pc = "generate", !.searches = @ + 1, !.retrieved = r]
            /\ UNCHANGED q_resp

\* answer, citations = await generate_answer(question, retrieved_chunks)
Generate(g, fails) ==
    /\ UNCHANGED <<storeVars, embVars, callVars>>
    /\ q.pc = "generate"
    /\ g \in GenerateResults(q.retrieved, q.use_mock)
    /\ IF fails THEN Fail("generate")
       ELSE /\ q' = [q EXCEPT !.pc = "validate", !.generates = @ + 1, !.answer = g.answer,
                              !.citations = g.citations, !.use_mock = g.use_mock]
            /\ UNCHANGED q_resp

\* is_valid = await validate_answer(answer, citations), and the test of the
\* retry: not is_valid and len(retrieved_chunks) < request.k + 2
Validate ==
    /\ UNCHANGED <<storeVars, embVars, callVars>>
    /\ q.pc = "validate"
    /\ LET v == ValidateAnswer(q.answer, q.citations)
       IN  q' = [q EXCEPT !.is_valid = v,
                          !.pc = IF ~v /\ q.retrieved < q.k + RetryExtraK
                                 THEN "retry" ELSE "snippets"]
    /\ UNCHANGED q_resp

\* (variant of AfterRetry: the retried answer is validated again)
AfterRetry_loop == "validate"

\* where query goes on after the retry: the snippet pass
AfterRetry == "snippets"

\* more_chunks = search_multiple(..., request.k + 2); if more_chunks:
\* answer, citations = generate_answer(question, more_chunks)
Retry(r, g, fails) ==
    /\ UNCHANGED <<storeVars, embVars, callVars>>
    /\ q.pc = "retry"
    /\ r \in SearchCounts(q.repos, q.k + RetryExtraK, q.ntotal)
    /\ g \in GenerateResults(r, q.use_mock)
    /\ IF fails THEN Fail("retry")
       ELSE /\ q' = IF r > 0
                    THEN [q EXCEPT !.pc = AfterRetry, !.retried = TRUE,
                                   !.searches = @ + 1, !.generates = @ + 1,
                                   !.answer = g.answer, !.citations = g.citations,
                                   !.use_mock = g.use_mock]
                    ELSE [q EXCEPT !.pc = AfterRetry, !.retried = TRUE,
                                   !.searches = @ + 1]
            /\ UNCHANGED q_resp

\* for citation in citations: extract_snippet(...); s citations yield a
\* snippet, the others None; then the QueryResponse is returned
SnippetPass(s, fails) ==
    /\ UNCHANGED <<storeVars, embVars, callVars>>
    /\ q.pc = "snippets"
    /\ s \in 0..q.citations
    /\ IF fails THEN q.citations > 0 /\ Fail("snippets")
       ELSE /\ q' = [q EXCEPT !.pc = "done"]
            /\ q_resp' = [kind |-> "answer", citations |-> q.citations, snippets |-> s,
                          mode |-> IF q.use_mock THEN "mock" ELSE "gpt4", raised |-> FALSE]

NextQuery ==
    \/ \E k \in 0..MaxK, repos \in 0..1, ntotal \in 0..MaxRows, use_mock \in BOOLEAN :
          QueryStart(k, repos, ntotal, use_mock)
    \/ \E fails \in BOOLEAN : Precheck(fails)
    \/ \E outcome \in {"vector", "empty", "raise"} : Embed(outcome)
    \/ \E r \in 0..MaxRows, fails \in BOOLEAN : Retrieve(r, fails)
    \/ \E g \in GenerateResults(q.retrieved, q.use_mock), fails \in BOOLEAN : Generate(g, fails)
    \/ Validate
    \/ \E r \in 0..MaxRows, fails \in BOOLEAN :
          \E g \in GenerateResults(r, q.use_mock) : Retry(r, g, fails)
    \/ \E s \in 0..MaxRows, fails \in BOOLEAN : SnippetPass(s, fails)

----------------------------------------------------------------------------
(* RAGService.validate_answer as a function of its arguments               *)

\* the citations a call can be given, each written path:start-end in a text
CitationIds == {"a.py:1-5", "a.py:10-25", "b.py:3-9"}

\* an answer text: blank (empty or white space only), containing one of the
\* uncertainty_indicators, and the path:start-end references it contains
AnswerTexts ==
    { t \in [blank : BOOLEAN, uncertain : BOOLEAN, refs : SUBSET CitationIds] :
        t.blank => (~t.uncertain /\ t.refs = {}) }

\* what validate_answer looks at in (answer, citations)
AnswerOf(text, citations) ==
    [nonempty |-> ~text.blank, uncertain |-> text.uncertain,
     cites |-> text.refs \cap citations # {}]

IdleValidate ==
    [pc |-> "idle", text |-> [blank |-> TRUE, uncertain |-> FALSE, refs |-> {}],
     citations |-> {}, result |-> FALSE]

\* the call validate_answer(answer, citations)
ValidateAnswerCall ==
    /\ va.pc = "call"
    /\ va' = [va EXCEPT !.pc = "done",
                        !.result = ValidateAnswer(AnswerOf(va.text, va.citations),
                                                  Cardinality(va.citations))]
    /\ UNCHANGED <<storeVars, embVars, queryVars, snip, sm, moreVars>>

NextValidate == ValidateAnswerCall

----------------------------------------------------------------------------
(* VectorStoreManager.search_multiple as a function of the stores' answers *)

\* the scores a result can carry, as ranks
ScoreRanks == {1, 2}

\* what store.search(query_embedding, k) of the i-th listed repository can
\* answer: an exception, or at most min(k, ntotal) results in descending
\* order of score (k < 1: an exception, or [] from a store without rows)
StoreAnswers(i, k) ==
    { [status |-> "error", results |-> <<>>] } \cup
    { [status |-> "ok", results |-> [j \in 1..n |-> [repo |-> i, pos |-> j, score |-> f[j]]]] :
        <<n, f>> \in { <<m, g>> \in UNION { {m} \X [1..m -> ScoreRanks] :
                                            m \in 0..Max(0, Min(k, MaxRows)) } :
                          \A a, b \in 1..m : a < b => g[a] >= g[b] } }

\* all_results.extend(results) over the repositories in the order listed; a
\* store whose search raised is logged and contributes nothing
RECURSIVE MergeResults(_, _)
MergeResults(answers, n) ==
    IF n = 0 THEN <<>>
    ELSE MergeResults(answers, n - 1)
            \o (IF answers[n].status = "ok" THEN answers[n].results ELSE <<>>)

\* (variant of SortByScore: the merged list is left in the order of the merge)
SortByScore_unsorted(results) == results

\* all_results.sort(key=lambda x: x["score"], reverse=True): a stable sort,
\* entries of equal score keep the order of the merge
RECURSIVE SortByScore(_)
SortByScore(results) ==
    IF results = <<>> THEN <<>>
    ELSE LET n      == Len(results)
             x      == results[n]
             sorted == SortByScore(SubSeq(results, 1, n - 1))
             c      == Cardinality({ i \in 1..Len(sorted) : sorted[i].score >= x.score })
         IN  SubSeq(sorted, 1, c) \o <<x>> \o SubSeq(sorted, c + 1, Len(sorted))

\* all_results[:k] (a negative k counts from the end of the list)
Truncate(results, k) ==
    SubSeq(results, 1, IF k < 0 THEN Max(0, Len(results) + k) ELSE Min(k, Len(results)))

\* VectorStoreManager.search_multiple(query_embedding, repo_ids, k)
SearchMultiple(answers, k) ==
    Truncate(SortByScore(MergeResults(answers, Len(answers))), k)

IdleMulti == [pc |-> "idle", k |-> 0, answers |-> <<>>, result |-> <<>>]

SearchMultipleCall ==
    /\ sm.pc = "call"
    /\ sm' = [sm EXCEPT !.pc = "done", !.result = SearchMultiple(sm.answers, sm.k)]
    /\ UNCHANGED <<storeVars, embVars, queryVars, snip, va, moreVars>>

NextMulti == SearchMultipleCall

----------------------------------------------------------------------------
(* Snippet extraction (services/snippets.py, two versions)                 *)

\* os.path.abspath(os.path.join(settings.repos_dir, repo_id)), as components
Root == <<"repos", "r">>

\* a rel_path: its components, and whether it starts with the separator
Rel(abs, parts) == [abs |-> abs, parts |-> parts]

RelPaths ==
    { Rel(FALSE, <<"a.py">>), Rel(FALSE, <<"sub", "b.py">>),
      Rel(FALSE, <<"sub", "..", "a.py">>), Rel(FALSE, <<".", "a.py">>),
      Rel(FALSE, <<"..", "r", "a.py">>),
      Rel(FALSE, <<"..", "..", "etc", "passwd">>), Rel(FALSE, <<"..", "r2", "a.py">>),
      Rel(TRUE, <<"etc", "passwd">>),
      Rel(FALSE, <<"missing.py">>), Rel(FALSE, <<"bin.dat">>),
      Rel(FALSE, <<"empty.txt">>), Rel(FALSE, <<"sub">>), Rel(FALSE, <<>>) }

\* os.path.join(root, rel_path): an absolute second argument replaces the first
JoinPath(root, rel) == IF rel.abs THEN rel.parts ELSE root \o rel.parts

\* os.path.abspath / normpath on the components: "." is dropped and ".."
\* removes the component before it (nothing above the file system root)
RECURSIVE NormPath(_, _)
NormPath(done, rest) ==
    IF rest = <<>> THEN done
    ELSE IF Head(rest) = "." THEN NormPath(done, Tail(rest))
    ELSE IF Head(rest) = ".."
    THEN NormPath(IF done = <<>> THEN done ELSE SubSeq(done, 1, Len(done) - 1), Tail(rest))
    ELSE NormPath(Append(done, Head(rest)), Tail(rest))

AbsPath(parts) == NormPath(<<>>, parts)

\* candidate.startswith(root + os.sep)
StartsWithRoot(candidate, root) ==
    /\ Len(candidate) > Len(root)
    /\ SubSeq(candidate, 1, Len(root)) = root

\* the files of the model: kind and number of lines of the file at a path
TextFiles ==
    { Root \o <<"a.py">>, Root \o <<"sub", "b.py">>, <<"repos", "r2", "a.py">>,
      <<"etc", "passwd">> }

FileKind(path) ==
    IF path \in TextFiles THEN "text"
    ELSE IF path = Root \o <<"bin.dat">> THEN "binary"
    ELSE IF path = Root \o <<"empty.txt">> THEN "empty"
    ELSE IF path \in { Root, Root \o <<"sub">>, <<"repos">>, <<"repos", "r2">>, <<"etc">>, <<>> }
    THEN "dir"
    ELSE "absent"

\* an optional integer argument: the empty set for None, else {value}
NoArg == {}
Given(v) == {v}
ArgValue(arg) == CHOOSE v \in arg : TRUE

SnipNone(read) ==
    [kind |-> "none", window_start |-> 0, window_end |-> 0, len |-> 0, marker |-> FALSE,
     head |-> 0, tail |-> 0, read |-> read]

SnipRaise ==
    [kind |-> "raise", window_start |-> 0, window_end |-> 0, len |-> 0, marker |-> FALSE,
     head |-> 0, tail |-> 0, read |-> <<>>]

\* lines[window_start-1:window_end] of a file of n lines: the number of lines
\* (a negative stop counts from the end of the list)
SliceLines(n, window_start, window_end) ==
    LET first == IF window_start - 1 < 0 THEN Max(0, n + window_start - 1)
                 ELSE Min(n, window_start - 1)
        stop  == IF window_end < 0 THEN Max(0, n + window_end) ELSE Min(n, window_end)
    IN  Max(0, stop - first)

\* window_start = max(1, start - context_lines)
WindowStart(start, context_lines) == Max(1, start - context_lines)

\* (variant of WindowEnd: the last line of the window taken as a 0-based index)
WindowEnd_zerobased(n, end, context_lines) == Min(n, end + context_lines) - 1

\* window_end = min(n, end + context_lines)
WindowEnd(n, end, context_lines) == Min(n, end + context_lines)

\* the window and the trimming of extract_snippet (version with
\* _safe_repo_path): a head of keep // 2 and a tail of the rest of keep
\* characters around "\n...\n"
WindowA(path, start, end, context_lines, max_chars) ==
    LET n            == FileLines
        window_start == WindowStart(start, context_lines)
        window_end   == WindowEnd(n, end, context_lines)
        blocklen     == SliceLines(n, window_start, window_end) * LineLen
        head_keep    == max_chars \div 2
        tail_keep    == max_chars - head_keep
    IN  [kind |-> "window", window_start |-> window_start, window_end |-> window_end,
         len |-> IF blocklen > max_chars THEN head_keep + 5 + tail_keep ELSE blocklen,
         marker |-> blocklen > max_chars,
         head |-> IF blocklen > max_chars THEN head_keep ELSE blocklen,
         tail |-> IF blocklen > max_chars THEN tail_keep ELSE 0,
         read |-> path]

\* extract_snippet of the version with _safe_repo_path and _is_probably_text;
\* "x or default" takes the default for None and for 0
ExtractSnippetA(rel, start, end, context_lines, max_chars) ==
    LET ctx       == IF context_lines = NoArg \/ context_lines = Given(0)
                     THEN SnippetContextLines ELSE ArgValue(context_lines)
        maxc      == IF max_chars = NoArg \/ max_chars = Given(0)
                     THEN SnippetMaxChars ELSE ArgValue(max_chars)
        candidate == AbsPath(JoinPath(Root, rel))
    IN  IF ~StartsWithRoot(candidate, Root) /\ candidate # Root
        THEN SnipRaise
        ELSE IF FileKind(candidate) \in {"absent", "dir"} THEN SnipNone(<<>>)
        ELSE IF FileKind(candidate) \in {"binary", "empty"} THEN SnipNone(candidate)
        ELSE WindowA(candidate, start, end, ctx, maxc)

\* _is_safe_path(file_path, base_dir)
IsSafePath(file_path, base_dir) ==
    LET abs_file_path == AbsPath(file_path)
        abs_base_dir  == AbsPath(base_dir)
    IN  StartsWithRoot(abs_file_path, abs_base_dir) \/ abs_file_path = abs_base_dir

\* the window and the truncation of extract_snippet (version with
\* _is_safe_path): the first snippet_max_chars characters, cut back to the
\* last newline when that keeps more than 80 %, else followed by
\* "\n... (truncated)"
WindowB(path, start, end, context_lines) ==
    LET n            == FileLines
        window_start == WindowStart(start, context_lines)
        window_end   == WindowEnd(n, end, context_lines)
        blocklen     == SliceLines(n, window_start, window_end) * LineLen
        last_newline == (SnippetMaxChars \div LineLen) * LineLen - 1
    IN  [kind |-> "window", window_start |-> window_start, window_end |-> window_end,
         len |-> IF blocklen > SnippetMaxChars
                 THEN IF 10 * last_newline > 8 * SnippetMaxChars
                      THEN last_newline + 1 ELSE SnippetMaxChars + 16
                 ELSE blocklen,
         marker |-> blocklen > SnippetMaxChars /\ ~(10 * last_newline > 8 * SnippetMaxChars),
         head |-> IF blocklen > SnippetMaxChars
                  THEN IF 10 * last_newline > 8 * SnippetMaxChars
                       THEN last_newline + 1 ELSE SnippetMaxChars
                  ELSE blocklen,
         tail |-> 0,
         read |-> path]

\* extract_snippet of the version with _is_safe_path: every failure,
\* an unsafe path included, is answered with None
ExtractSnippetB(rel, start, end, context_lines) ==
    LET ctx       == IF context_lines = NoArg THEN SnippetContextLines
                     ELSE ArgValue(context_lines)
        file_path == JoinPath(Root, rel)
        target    == AbsPath(file_path)
    IN  IF ~IsSafePath(file_path, Root) THEN SnipNone(<<>>)
        ELSE IF FileKind(target) = "absent" THEN SnipNone(<<>>)
        ELSE IF FileKind(target) = "dir" THEN SnipNone(<<>>)
        ELSE IF FileKind(target) = "empty" THEN SnipNone(target)
        ELSE WindowB(target, start, end, ctx)

SnipArgs ==
    [impl : {"A", "B"}, rel : RelPaths, start : {0, 1, 5, FileLines},
     end : {1, 8, FileLines, FileLines + 5},
     context_lines : {NoArg, Given(0), Given(2), Given(-2)},
     max_chars : {NoArg, Given(200)}]

IdleSnippet ==
    [pc |-> "idle", args |-> [impl |-> "A", rel |-> Rel(FALSE, <<>>), start |-> 1, end |-> 1,
                              context_lines |-> NoArg, max_chars |-> NoArg],
     result |-> SnipNone(<<>>)]

\* the call extract_snippet(repo_id, rel_path, start, end, context_lines, max_chars)
ExtractSnippetCallA ==
    /\ snip.pc = "call" /\ snip.args.impl = "A"
    /\ snip' = [snip EXCEPT !.pc = "done",
                            !.result = ExtractSnippetA(snip.args.rel, snip.args.start,
                                          snip.args.end, snip.args.context_lines,
                                          snip.args.max_chars)]
    /\ UNCHANGED <<storeVars, embVars, queryVars, va, sm, moreVars>>

\* the call extract_snippet(repo_id, rel_path, start, end, context_lines)
ExtractSnippetCallB ==
    /\ snip.pc = "call" /\ snip.args.impl = "B"
    /\ snip' = [snip EXCEPT !.pc = "done",
                            !.result = ExtractSnippetB(snip.args.rel, snip.args.start,
                                          snip.args.end, snip.args.context_lines)]
    /\ UNCHANGED <<storeVars, embVars, queryVars, va, sm, moreVars>>

NextSnippet == ExtractSnippetCallA \/ ExtractSnippetCallB

----------------------------------------------------------------------------
(* IngestionService._process_files                                         *)

IdleIngest ==
    [pc |-> "idle", n |-> 0, i |-> 0, batch_chunks |-> 0, files_processed |-> 0,
     chunks_stored |-> 0]

\* what _process_single_file does with one file: "chunks" it returns the
\* file's chunks (one, here); "none" it returns [] (the file cannot be read or
\* decoded, is not a text file, or chunk_file returns no chunk); "error" an
\* exception leaves it, which the try of the loop body catches
FileOutcomes == {"chunks", "none", "error"}

\* vector_store.add_chunks(batch_chunks, embeddings): it returns the number
\* of chunks, or an exception of index.add, of the INSERT or of the commit
\* leaves it
AddOutcomes == {"ok", "raise"}

\* the position after the file at offset i (0-based) has been handled: the
\* inner loop ends at the end of a batch of batch_size files or of the list
AfterFile(n, i2, batch_chunks2) ==
    IF i2 = n \/ i2 % IngestBatchSize = 0
    THEN IF batch_chunks2 > 0 THEN "embed" ELSE IF i2 = n THEN "return" ELSE "file"
    ELSE "file"

\* get_store, _find_files, and the counters set to 0
ProcessFilesStart ==
    /\ ing.pc = "start"
    /\ ing' = [ing EXCEPT !.pc = IF ing.n = 0 THEN "return" ELSE "file"]
    /\ UNCHANGED <<storeVars, embVars, queryVars, snip, va, sm, notIngest>>

\* one iteration of the loop over batch_files
ProcessSingleFile(outcome) ==
    /\ ing.pc = "file"
    /\ ing.i < ing.n
    /\ LET got == IF outcome = "chunks" THEN 1 ELSE 0
           bc2 == ing.batch_chunks + got
       IN  ing' = [ing EXCEPT !.i = @ + 1,
                              !.batch_chunks = bc2,
                              !.files_processed = @ + got,
                              !.pc = AfterFile(ing.n, ing.i + 1, bc2)]
    /\ UNCHANGED <<storeVars, embVars, queryVars, snip, va, sm, notIngest>>

\* embeddings = await self.embedding_service.embed_texts(batch_texts): a
\* failure of the remote or of the local backend is caught inside the
\* service, which returns its md5-derived vectors instead
EmbedBatch ==
    /\ ing.pc = "embed"
    /\ ing' = [ing EXCEPT !.pc = "add"]
    /\ UNCHANGED <<storeVars, embVars, queryVars, snip, va, sm, notIngest>>

\* stored_count = vector_store.add_chunks(batch_chunks, embeddings);
\* chunks_stored += stored_count.  The statement is in no try block: an
\* exception of add_chunks leaves _process_files, and ingest_zip_file /
\* ingest_repository log it and raise it again
AddBatch(outcome) ==
    /\ ing.pc = "add"
    /\ ing' = IF outcome = "ok"
              THEN [ing EXCEPT !.chunks_stored = @ + ing.batch_chunks,
                               !.batch_chunks = 0,
                               !.pc = IF ing.i = ing.n THEN "return" ELSE "file"]
              ELSE [ing EXCEPT !.pc = "raised"]
    /\ UNCHANGED <<storeVars, embVars, queryVars, snip, va, sm, notIngest>>

\* return IngestResponse(files_processed, chunks_stored, status="success")
ProcessFilesReturn ==
    /\ ing.pc = "return"
    /\ ing' = [ing EXCEPT !.pc = "done"]
    /\ UNCHANGED <<storeVars, embVars, queryVars, snip, va, sm, notIngest>>

NextIngest ==
    \/ ProcessFilesStart
    \/ \E outcome \in FileOutcomes : ProcessSingleFile(outcome)
    \/ EmbedBatch
    \/ \E outcome \in AddOutcomes : AddBatch(outcome)
    \/ ProcessFilesReturn

----------------------------------------------------------------------------
(* RAGService.generate_answer and _extract_citations                       *)

\* retrieved chunks: path, start_line, end_line
RetrievedChunks ==
    { [path |-> "a.py", start_line |-> 1, end_line |-> 5],
      [path |-> "a.py", start_line |-> 6, end_line |-> 10],
      [path |-> "b.py", start_line |-> 1, end_line |-> 5] }

\* the matches of r'([^:\s]+):(\d+)-(\d+)' in an answer text, in text order
References ==
    [path : {"a.py", "b.py"}, start : {3, 8}, end : {5, 12}]

SeqsUpTo(S, n) == UNION { [1..m -> S] : m \in 0..n }

\* the chunks the condition of line 161 accepts for one match
MatchingChunks(ref, chunks) ==
    { j \in 1..Len(chunks) :
        /\ chunks[j].path = ref.path
        /\ chunks[j].start_line <= ref.start
        /\ ref.start <= chunks[j].end_line }

\* the loop over matches: the first accepted chunk gives a Citation with the
\* path, start and end of the match (chunk is a history field naming the
\* offset of that chunk), a match no chunk accepts gives none
RECURSIVE ParsedCitations(_, _)
ParsedCitations(refs, chunks) ==
    IF refs = <<>> THEN <<>>
    ELSE LET ref  == Head(refs)
             m    == MatchingChunks(ref, chunks)
             rest == ParsedCitations(Tail(refs), chunks)
         IN  IF m = {} THEN rest
             ELSE << [path |-> ref.path, start |-> ref.start, end |-> ref.end,
                      chunk |-> CHOOSE j \in m : \A k \in m : j <= k] >> \o rest

\* one Citation per retrieved chunk, with the chunk's own range
ChunkCitations(chunks) ==
    [j \in 1..Len(chunks) |->
        [path |-> chunks[j].path, start |-> chunks[j].start_line,
         end |-> chunks[j].end_line, chunk |-> j]]

\* _extract_citations(answer, retrieved_chunks)
ExtractCitations(refs, chunks) ==
    LET parsed == ParsedCitations(refs, chunks)
    IN  IF parsed = <<>>
        THEN [citations |-> ChunkCitations(chunks), parsed |-> FALSE]
        ELSE [citations |-> parsed, parsed |-> TRUE]

\* what the chat completion request of generate_answer ends with
AnswerOutcomes == {"ok", "quota", "other"}

\* _mock_generate_answer: a canned sentence and one Citation per chunk
MockGenerateAnswer(chunks) ==
    [kind |-> "mock", citations |-> ChunkCitations(chunks), parsed |-> FALSE, use_mock |-> TRUE]

\* generate_answer(question, retrieved_chunks) of a service whose flag is
\* use_mock, the request ending with outcome and the text it returns having
\* the matches refs
GenerateAnswer(chunks, refs, use_mock, outcome) ==
    IF chunks = <<>>
    THEN [kind |-> "nothing", citations |-> <<>>, parsed |-> FALSE, use_mock |-> use_mock]
    ELSE IF use_mock THEN MockGenerateAnswer(chunks)
    ELSE IF outcome = "ok"
    THEN LET x == ExtractCitations(refs, chunks)
         IN  [kind |-> "remote", citations |-> x.citations, parsed |-> x.parsed,
              use_mock |-> FALSE]
    ELSE IF outcome = "quota" THEN MockGenerateAnswer(chunks)
    ELSE [kind |-> "sorry", citations |-> <<>>, parsed |-> FALSE, use_mock |-> FALSE]

IdleCite ==
    [pc |-> "idle", chunks |-> <<>>, refs |-> <<>>, use_mock |-> TRUE, outcome |-> "ok",
     result |-> [kind |-> "none", citations |-> <<>>, parsed |-> FALSE, use_mock |-> TRUE]]

GenerateAnswerCall ==
    /\ cit.pc = "call"
    /\ cit' = [cit EXCEPT !.pc = "done",
                          !.result = GenerateAnswer(cit.chunks, cit.refs, cit.use_mock,
                                                    cit.outcome)]
    /\ UNCHANGED <<storeVars, embVars, queryVars, snip, va, sm, notCite>>

NextCite == GenerateAnswerCall

----------------------------------------------------------------------------
(* The chunkers: chunk_file and TreeSitterChunker._fallback_chunk_file     *)

\* a line of a file: size is what len(encoding.encode(line)) gives, blank
\* tells whether line.strip() is empty (an empty line has size 0, a line of
\* spaces or tabs has tokens)
LineKinds ==
    { [size |-> 0, blank |-> TRUE], [size |-> 2, blank |-> TRUE],
      [size |-> 2, blank |-> FALSE], [size |-> 3, blank |-> FALSE] }

\* content.split('\n') gives at least one line
FilesOfLines == UNION { [1..n -> LineKinds] : n \in 1..MaxLines }

\* not chunk_content.strip() for the lines from..to (1-based, inclusive)
BlankRange(lines, from, to) == \A j \in from..to : lines[j].blank

\* the state of the loop of chunk_file after the lines 1..i: the chunks
\* appended, start_line, and the size and number of lines of current_chunk
RECURSIVE ChunkLoop(_, _, _)
ChunkLoop(lines, i, max_chunk_size) ==
    IF i = 0 THEN [chunks |-> <<>>, start_line |-> 1, current_size |-> 0, current_len |-> 0]
    ELSE LET st   == ChunkLoop(lines, i - 1, max_chunk_size)
             line == lines[i]
         IN  IF st.current_len > 0 /\ st.current_size + line.size > max_chunk_size
             THEN [chunks |-> IF BlankRange(lines, st.start_line, i - 1) THEN st.chunks
                              ELSE Append(st.chunks,
                                          [start_line |-> st.start_line, end_line |-> i - 1]),
                   start_line |-> i, current_size |-> line.size, current_len |-> 1]
             ELSE [st EXCEPT !.current_size = @ + line.size, !.current_len = @ + 1]

\* chunk_file(file_path, content, max_chunk_size)
ChunkFile(lines, max_chunk_size) ==
    IF BlankRange(lines, 1, Len(lines)) THEN [status |-> "ok", chunks |-> <<>>]
    ELSE LET st == ChunkLoop(lines, Len(lines), max_chunk_size)
         IN  [status |-> "ok",
              chunks |-> IF st.current_len > 0 /\ ~BlankRange(lines, st.start_line, Len(lines))
                         THEN Append(st.chunks,
                                     [start_line |-> st.start_line, end_line |-> Len(lines)])
                         ELSE st.chunks]

\* the chunks of the windows that start at the 0-based offsets i, i + step,
\* ... below n
RECURSIVE Windows(_, _, _, _)
Windows(lines, i, step, lines_per_chunk) ==
    IF i >= Len(lines) THEN <<>>
    ELSE LET end_line == Min(i + lines_per_chunk, Len(lines))
             rest     == Windows(lines, i + step, step, lines_per_chunk)
         IN  IF BlankRange(lines, i + 1, end_line) THEN rest
             ELSE << [start_line |-> i + 1, end_line |-> end_line] >> \o rest

\* _fallback_chunk_file(file_path, content) under the settings
\* max_chunk_tokens and chunk_overlap_tokens: range() raises ValueError for a
\* step of 0 and is empty for a negative step
FallbackChunkFile(lines, max_chunk_tokens, chunk_overlap_tokens) ==
    LET lines_per_chunk == Max(1, max_chunk_tokens \div AvgTokensPerLine)
        overlap_lines   == Max(1, chunk_overlap_tokens \div AvgTokensPerLine)
        step            == lines_per_chunk - overlap_lines
    IN  IF step = 0 THEN [status |-> "raise", chunks |-> <<>>]
        ELSE IF step < 0 THEN [status |-> "ok", chunks |-> <<>>]
        ELSE [status |-> "ok", chunks |-> Windows(lines, 0, step, lines_per_chunk)]

IdleChunk ==
    [pc |-> "idle", impl |-> "chunk_file", lines |-> <<>>, max_chunk_size |-> 0,
     max_chunk_tokens |-> 0, chunk_overlap_tokens |-> 0,
     result |-> [status |-> "ok", chunks |-> <<>>]]

ChunkFileCall ==
    /\ chk.pc = "call"
    /\ chk.impl = "chunk_file"
    /\ chk' = [chk EXCEPT !.pc = "done", !.result = ChunkFile(chk.lines, chk.max_chunk_size)]
    /\ UNCHANGED <<storeVars, embVars, queryVars, snip, va, sm, notChunk>>

FallbackChunkFileCall ==
    /\ chk.pc = "call"
    /\ chk.impl = "fallback"
    /\ chk' = [chk EXCEPT !.pc = "done",
                          !.result = FallbackChunkFile(chk.lines, chk.max_chunk_tokens,
                                                       chk.chunk_overlap_tokens)]
    /\ UNCHANGED <<storeVars, embVars, queryVars, snip, va, sm, notChunk>>

NextChunk == ChunkFileCall \/ FallbackChunkFileCall

----------------------------------------------------------------------------
(* The deterministic embeddings: Embedder._mock_vec and                    *)
(* EmbeddingService._mock_embedding                                        *)

Texts == {"def f(): pass", "class A: pass"}

\* int(hashlib.md5(text.encode("utf-8")).hexdigest(), 16): a 128-bit number
\* fixed by the bytes of the text, written as its low 32 bits and the rest
Md5(text) ==
    IF text = "def f(): pass" THEN [high |-> 0, low |-> 3] ELSE [high |-> 1, low |-> 9]

\* (variant of MockVec: the generator is seeded once per embedder and each
\* call draws the next numbers of its stream)
MockVec_stream(self, text, dim) ==
    [kind |-> "rng", seed |-> self.calls, len |-> MockVecLen(dim)]

\* Embedder._mock_vec(self, text, dim): the dim normal draws of
\* np.random.default_rng(seed) for seed = md5(text) % 2**32, divided by
\* their norm; the draws are fixed by the seed and the size
MockVec(self, text, dim) ==
    [kind |-> "rng", seed |-> Md5(text).low, len |-> MockVecLen(dim)]

\* EmbeddingService._mock_embedding(self, text): the numbers of the hex
\* pairs of the md5 digest, padded by repetition to self.dimension
MockEmbedding(self, text) ==
    [kind |-> "pairs", seed |-> Md5(text), len |-> MockEmbeddingLen(self.dimension)]

\* two separately constructed objects, each with its dimension and the
\* number of calls made on it; outs collects what every call returned
NewMockEmbedders(d1, d2) ==
    [objs |-> << [dimension |-> d1, calls |-> 0], [dimension |-> d2, calls |-> 0] >>,
     outs |-> {}]

IdleMock == NewMockEmbedders(DimMock, DimMock)

Observation(e, self, impl, text, vec) ==
    [e |-> e, n |-> self.calls + 1, impl |-> impl, text |-> text, dim |-> self.dimension,
     vec |-> vec]

\* embed_texts([text]) of Embedder number e in mock mode:
\* self._mock_vec(text, self.embedding_dimension)
MockVecCall(e, text) ==
    /\ mk.objs[e].calls < MaxMockCalls
    /\ LET self == mk.objs[e]
       IN  mk' = [objs |-> [mk.objs EXCEPT ![e].calls = @ + 1],
                  outs |-> mk.outs \cup
                     { Observation(e, self, "mock_vec", text,
                                   MockVec(self, text, self.dimension)) }]
    /\ UNCHANGED <<storeVars, embVars, queryVars, snip, va, sm, notMock>>

\* embed_texts([text]) of EmbeddingService number e in mock mode:
\* self._mock_embedding(text)
MockEmbeddingCall(e, text) ==
    /\ mk.objs[e].calls < MaxMockCalls
    /\ LET self == mk.objs[e]
       IN  mk' = [objs |-> [mk.objs EXCEPT ![e].calls = @ + 1],
                  outs |-> mk.outs \cup
                     { Observation(e, self, "mock_embedding", text,
                                   MockEmbedding(self, text)) }]
    /\ UNCHANGED <<storeVars, embVars, queryVars, snip, va, sm, notMock>>

NextMock ==
    \/ \E e \in 1..2, text \in Texts : MockVecCall(e, text)
    \/ \E e \in 1..2, text \in Texts : MockEmbeddingCall(e, text)

----------------------------------------------------------------------------
(* States of the parts a specification does not exercise                   *)


InitMore ==
    /\ second = NoSecond
    /\ ing = IdleIngest
    /\ cit = IdleCite
    /\ chk = IdleChunk
    /\ mk = IdleMock


InitValidateSpec ==
    /\ repo_id = <<"o", "/", "r">>
    /\ active_dim = DimMock
    /\ InitStore
    /\ cfg = DefaultCfg
    /\ InitEmbedder
    /\ InitQuery
    /\ InitMore
    /\ snip = IdleSnippet
    /\ \E t \in AnswerTexts, c \in SUBSET CitationIds :
          va = [pc |-> "call", text |-> t, citations |-> c, result |-> FALSE]
    /\ sm = IdleMulti

SpecValidate == InitValidateSpec /\ [][NextValidate]_vars

InitMultiSpec ==
    /\ repo_id = <<"o", "/", "r">>
    /\ active_dim = DimMock
    /\ InitStore
    /\ cfg = DefaultCfg
    /\ InitEmbedder
    /\ InitQuery
    /\ InitMore
    /\ snip = IdleSnippet
    /\ va = IdleValidate
    /\ \E k \in (-1)..MaxK, n \in 0..MaxRepos :
          \E answers \in [1..n -> UNION { StoreAnswers(i, k) : i \in 1..n }] :
              /\ \A i \in 1..n : answers[i] \in StoreAnswers(i, k)
              /\ sm = [pc |-> "call", k |-> k, answers |-> answers, result |-> <<>>]

SpecMulti == InitMultiSpec /\ [][NextMulti]_vars

InitSnippetSpec ==
    /\ repo_id = <<"o", "/", "r">>
    /\ active_dim = DimMock
    /\ InitStore
    /\ cfg = DefaultCfg
    /\ InitEmbedder
    /\ InitQuery
    /\ InitMore
    /\ \E a \in SnipArgs :
          /\ a.impl = "B" => a.max_chars = NoArg
          /\ snip = [pc |-> "call", args |-> a, result |-> SnipNone(<<>>)]
    /\ va = IdleValidate
    /\ sm = IdleMulti

SpecSnippet == InitSnippetSpec /\ [][NextSnippet]_vars

InitEmbedderSpec ==
    /\ repo_id = <<"o", "/", "r">>
    /\ active_dim = DimMock
    /\ InitStore
    /\ cfg \in Cfgs
    /\ InitEmbedder
    /\ InitQuery
    /\ InitMore
    /\ snip = IdleSnippet
    /\ va = IdleValidate
    /\ sm = IdleMulti

SpecEmbedder == InitEmbedderSpec /\ [][NextEmbedder]_vars

InitQuerySpec ==
    /\ repo_id = <<"o", "/", "r">>
    /\ active_dim = DimMock
    /\ InitStore
    /\ cfg = DefaultCfg
    /\ InitEmbedder
    /\ InitQuery
    /\ InitMore
    /\ snip = IdleSnippet
    /\ va = IdleValidate
    /\ sm = IdleMulti

SpecQuery == InitQuerySpec /\ [][NextQuery]_vars

Init ==
    /\ repo_id \in RepoIds
    /\ active_dim \in Dims
    /\ InitStore
    /\ cfg = DefaultCfg
    /\ InitEmbedder
    /\ InitQuery
    /\ InitMore
    /\ snip = IdleSnippet
    /\ va = IdleValidate
    /\ sm = IdleMulti

\* Operations in which no step fails
Next ==
    \/ \E chunks \in ChunkBatches, embs \in EmbBatches : AddChunks(chunks, embs, "none", 0)
    \/ GetStore(FALSE)
    \/ \E dim \in Dims : Restart(dim, FALSE)

Spec == Init /\ [][Next]_vars

\* Additions of as many vectors as chunks, the vectors of the store's
\* dimension and in two directions, and searches
SearchDirs == {1, 2}

SearchVectors == [dim : Dims, dir : SearchDirs]

SearchBatches ==
    UNION { [1..n -> { v \in SearchVectors : v.dim = DimMock }] : n \in 0..MaxBatch }

InitSearchSpec ==
    /\ repo_id = <<"o", "/", "r">>
    /\ active_dim = DimMock
    /\ InitStore
    /\ cfg = DefaultCfg
    /\ InitEmbedder
    /\ InitQuery
    /\ InitMore
    /\ snip = IdleSnippet
    /\ va = IdleValidate
    /\ sm = IdleMulti

NextSearch ==
    \/ GetStore(FALSE)
    \/ \E chunks \in ChunkBatches, embs \in SearchBatches :
          Len(chunks) = Len(embs) /\ AddChunks(chunks, embs, "none", 0)
    \/ \E query \in SearchVectors, k \in 0..MaxK : Search(query, k)

SpecSearch == InitSearchSpec /\ [][NextSearch]_vars

\* Additions, deletions (complete or ended by a failing os.remove) and loads
NextDelete ==
    \/ GetStore(FALSE)
    \/ \E chunks \in ChunkBatches, embs \in EmbBatches : AddChunks(chunks, embs, "none", 0)
    \/ \E removed \in 0..Len(DeleteOrder) : DeleteRepo(removed)

SpecDelete == Init /\ [][NextDelete]_vars

\* Two managers of one process, each with its own store of the repository
NextManagers ==
    \/ GetStore(FALSE)
    \/ GetStoreOther
    \/ \E chunks \in ChunkBatches, embs \in EmbBatches : AddChunks(chunks, embs, "none", 0)
    \/ \E chunks \in ChunkBatches, embs \in EmbBatches : AddChunksOther(chunks, embs)

SpecManagers == Init /\ [][NextManagers]_vars

\* Two repositories of one manager
InitReposSpec ==
    /\ repo_id \in RepoIds
    /\ active_dim = DimMock
    /\ InitStore
    /\ cfg = DefaultCfg
    /\ InitEmbedder
    /\ InitQuery
    /\ snip = IdleSnippet
    /\ va = IdleValidate
    /\ sm = IdleMulti
    /\ \E id \in SecondRepoIds \ {repo_id} : second = [NoSecond EXCEPT !.repo_id = id]
    /\ ing = IdleIngest
    /\ cit = IdleCite
    /\ chk = IdleChunk
    /\ mk = IdleMock

NextRepos ==
    \/ GetStore(FALSE)
    \/ \E chunks \in ChunkBatches, embs \in EmbBatches :
          Len(chunks) = Len(embs) /\ AddChunks(chunks, embs, "none", 0)
    \/ DeleteRepo(Len(DeleteOrder))
    \/ GetStoreSecond
    \/ \E chunks \in ChunkBatches, embs \in EmbBatches : AddChunksSecond(chunks, embs)
    \/ DeleteRepoSecond

SpecRepos == InitReposSpec /\ [][NextRepos]_vars

\* One _process_files call over a list of n files
InitIngestSpec ==
    /\ repo_id = <<"o", "/", "r">>
    /\ active_dim = DimMock
    /\ InitStore
    /\ cfg = DefaultCfg
    /\ InitEmbedder
    /\ InitQuery
    /\ snip = IdleSnippet
    /\ va = IdleValidate
    /\ sm = IdleMulti
    /\ second = NoSecond
    /\ \E n \in 0..MaxFiles : ing = [IdleIngest EXCEPT !.pc = "start", !.n = n]
    /\ cit = IdleCite
    /\ chk = IdleChunk
    /\ mk = IdleMock

SpecIngest == InitIngestSpec /\ [][NextIngest]_vars

\* One generate_answer call
InitCiteSpec ==
    /\ repo_id = <<"o", "/", "r">>
    /\ active_dim = DimMock
    /\ InitStore
    /\ cfg = DefaultCfg
    /\ InitEmbedder
    /\ InitQuery
    /\ snip = IdleSnippet
    /\ va = IdleValidate
    /\ sm = IdleMulti
    /\ second = NoSecond
    /\ ing = IdleIngest
    /\ \E chunks \in SeqsUpTo(RetrievedChunks, MaxRetrieved), refs \in SeqsUpTo(References, MaxRefs),
          use_mock \in BOOLEAN, outcome \in AnswerOutcomes :
          /\ (use_mock => outcome = "ok" /\ refs = <<>>)
          /\ (outcome # "ok" => refs = <<>>)
          /\ cit = [IdleCite EXCEPT !.pc = "call", !.chunks = chunks, !.refs = refs,
                                    !.use_mock = use_mock, !.outcome = outcome]
    /\ chk = IdleChunk
    /\ mk = IdleMock

SpecCite == InitCiteSpec /\ [][NextCite]_vars

\* One call of a chunker on a file of up to MaxLines lines
InitChunkSpec ==
    /\ repo_id = <<"o", "/", "r">>
    /\ active_dim = DimMock
    /\ InitStore
    /\ cfg = DefaultCfg
    /\ InitEmbedder
    /\ InitQuery
    /\ snip = IdleSnippet
    /\ va = IdleValidate
    /\ sm = IdleMulti
    /\ second = NoSecond
    /\ ing = IdleIngest
    /\ cit = IdleCite
    /\ \E lines \in FilesOfLines :
          \/ \E m \in {3, 4} :
                chk = [IdleChunk EXCEPT !.pc = "call", !.lines = lines, !.max_chunk_size = m]
          \/ \E t \in {10, 20, 30}, o \in {0, 10} :
                chk = [IdleChunk EXCEPT !.pc = "call", !.impl = "fallback", !.lines = lines,
                                       !.max_chunk_tokens = t, !.chunk_overlap_tokens = o]
    /\ mk = IdleMock

SpecChunk == InitChunkSpec /\ [][NextChunk]_vars

\* The ingestion service's manager (store vs) and the query service's
\* manager (store other) in one process
NextVisibility ==
    \/ GetStore(FALSE)
    \/ \E chunks \in ChunkBatches, embs \in EmbBatches :
          Len(chunks) = Len(embs) /\ AddChunks(chunks, embs, "none", 0)
    \/ QueryOnStore

SpecVisibility == Init /\ [][NextVisibility]_vars

\* Deterministic-embedding calls on two separately constructed objects
InitMockSpec ==
    /\ repo_id = <<"o", "/", "r">>
    /\ active_dim = DimMock
    /\ InitStore
    /\ cfg = DefaultCfg
    /\ InitEmbedder
    /\ InitQuery
    /\ snip = IdleSnippet
    /\ va = IdleValidate
    /\ sm = IdleMulti
    /\ second = NoSecond
    /\ ing = IdleIngest
    /\ cit = IdleCite
    /\ chk = IdleChunk
    /\ \E d1 \in Dims, d2 \in Dims : mk = NewMockEmbedders(d1, d2)

SpecMock == InitMockSpec /\ [][NextMock]_vars

\* The same operations, and those in which one step of the call fails
AddChunksFails ==
    \E chunks \in ChunkBatches, embs \in EmbBatches :
        \E f \in AddFaults(chunks) \ { <<"none", 0>> } : AddChunks(chunks, embs, f[1], f[2])

NextFaults ==
    \/ Next
    \/ AddChunksFails
    \/ GetStore(TRUE)
    \/ \E dim \in Dims : Restart(dim, TRUE)

SpecFaults == Init /\ [][NextFaults]_vars

----------------------------------------------------------------------------
(* Properties of the VectorStore                                           *)

CatalogEntries(i) == { r \in vs.db : r.faiss_row = i }

\* C1: after add_chunks calls in which nothing failed and chunks and vectors
\* had equal lengths, every row i of the index has exactly one catalog entry
\* with faiss_row = i, and that entry describes the i-th chunk added.
C1_RowCorrespondence ==
    (vs.open /\ vs_last.clean) =>
        \A i \in 0..(Len(vs.index) - 1) :
            /\ Cardinality(CatalogEntries(i)) = 1
            /\ \A r \in CatalogEntries(i) : r.chunk = vs.index[i + 1].src

\* C2: an add_chunks call in which the normalisation, a catalog write, the
\* commit or the index save fails reports the failure and leaves the index
\* and the catalog as they were before the call.
C2_AllOrNothing ==
    (vs_last.op = "add" /\ vs_last.fault # "none") =>
        (vs_last.status = "error" /\ vs_last.vs_kept)

\* C5: loading a repository whose sidecar records another dimension than the
\* one the active embedder produces fails; no usable store comes out of it.
C5_ReloadMismatchFatal ==
    (vs_last.op = "load" /\ vs_last.mismatch) => (vs_last.status = "error" /\ ~vs.open)

\* C6: an add_chunks call with vectors of another dimension than the index's
\* fails and leaves index and catalog unchanged, and all rows of an index
\* have the dimension of the index.
C6_DimensionMismatchRejected ==
    /\ (vs_last.op = "add" /\ vs_last.in_dim # 0 /\ vs_last.in_dim # vs.index_d) =>
            (vs_last.status = "error" /\ vs_last.vs_kept /\ vs_last.disk_kept)
    /\ \A i \in 1..Len(vs.index) : vs.index[i].dim = vs.index_d

C6_Witness ==
    /\ vs_last.op = "add" /\ vs_last.in_dim # 0 /\ vs_last.in_dim # vs.index_d
    /\ vs_last.status = "error"
    /\ Len(vs.index) > 0

\* C17: add_chunks([], []) returns 0 and leaves the in-memory index, the
\* catalog and every persisted artifact as they were.
C17_EmptyAddIsNoOp ==
    (vs_last.op = "add" /\ vs_last.lens = <<0, 0>>) =>
        /\ vs_last.status = "ok" /\ vs_last.ret = 0
        /\ vs_last.vs_kept /\ vs_last.disk_kept

C17_Witness ==
    /\ vs_last.op = "add" /\ vs_last.lens = <<0, 0>>
    /\ vs_last.ret = 0
    /\ vs.open /\ ~disk.index.exists

\* C13: an add_chunks call with non-empty lists of different lengths fails
\* with an error and adds nothing to the index, the catalog or the files.
C13_SizeMismatchRejected ==
    (vs_last.op = "add" /\ vs_last.lens[1] > 0 /\ vs_last.lens[2] > 0
        /\ vs_last.lens[1] # vs_last.lens[2]) =>
        (vs_last.status = "error" /\ vs_last.vs_kept /\ vs_last.disk_kept)

\* the results are in descending order of score, rows of equal score in the
\* order of their insertion
Ordered(results) ==
    \A a, b \in 1..Len(results) :
        a < b => \/ results[a].score > results[b].score
                 \/ (results[a].score = results[b].score /\ results[a].row < results[b].row)

\* C14: after additions in which nothing failed and chunks and vectors had
\* equal lengths, search(query, k) on an index of n rows returns exactly
\* min(k, n) results, in descending order of score, rows of equal score in
\* insertion order.
C14_SearchTopKOrdered ==
    (vs_last.op = "search" /\ vs_last.clean /\ found.k >= 1
        /\ found.query.dim = vs.index_d) =>
        /\ found.status = "ok"
        /\ Len(found.results) = Min(found.k, Len(vs.index))
        /\ Ordered(found.results)

\* the rows of the index that hold the vector searched for
RowsOf(query) == { i \in 1..Len(vs.index) : vs.index[i].dir = query.dir }

\* C15: after additions in which nothing failed and chunks and vectors had
\* equal lengths, a search with a vector that was added returns as its first
\* result the chunk added with that vector, with the maximum score.
C15_SelfRetrieval ==
    (vs_last.op = "search" /\ vs_last.clean /\ found.k >= 1
        /\ found.query.dim = vs.index_d /\ RowsOf(found.query) # {}) =>
        /\ found.status = "ok"
        /\ Len(found.results) >= 1
        /\ found.results[1].score = Score(found.query, found.query)
        /\ \E i \in RowsOf(found.query) : vs.index[i].src = found.results[1].chunk

\* C16: a search on a store whose index holds no vectors returns the empty
\* list, whatever the query vector and k are, and raises nothing.
C16_EmptySearchReturnsEmpty ==
    (vs_last.op = "search" /\ Len(vs.index) = 0) =>
        (found.status = "ok" /\ found.results = <<>>)

C16_Witness ==
    /\ vs_last.op = "search" /\ Len(vs.index) = 0
    /\ found.k = 0 /\ found.query.dim # vs.index_d
    /\ found.status = "ok"

\* a catalog with rows and an index without, or an index with rows and a
\* catalog without
HalfState(store) ==
    \/ (store.db # {} /\ Len(store.index) = 0)
    \/ (store.db = {} /\ Len(store.index) > 0)

\* C19: delete_repo removes the repository's index and catalog, and the
\* store loaded after a deletion (complete or interrupted) is not in a
\* half-state.
C19_DeleteLeavesNoHalfState ==
    /\ [](vs_last.op = "delete" /\ vs_last.fault = "none"
            => (~disk.index.exists /\ disk.db = {}))
    /\ [][(vs_last.op = "delete" /\ vs'.open) => ~HalfState(vs')]_vars

\* C20: add_chunks calls for one repository, through one store or through
\* the stores of two managers, are serialized on the row count: after calls
\* in which nothing failed and chunks and vectors had equal lengths no two
\* catalog entries have the same faiss_row, and every call that added
\* vectors leaves the persisted index longer by their number (no vector
\* added before is lost).
C20_WritesSerialized ==
    /\ [](vs_last.clean =>
            \A r1, r2 \in disk.db : r1.faiss_row = r2.faiss_row => r1 = r2)
    /\ [][(vs_last'.op \in {"add", "add_other"} /\ vs_last'.status = "ok"
             /\ vs_last'.lens[1] > 0 /\ vs_last'.lens[2] > 0 /\ nops' # nops) =>
              Len(disk'.index.rows) = Len(disk.index.rows) + vs_last'.lens[2]]_vars

----------------------------------------------------------------------------
(* Properties of the embedders                                             *)

\* C7 (as stated): once a remote embedding call has failed with a quota or
\* an authorization failure, the Embedder's mode is mock in every later state
\* and no later embed call issues a remote request.
C7_FailureDowngradesForGood ==
    /\ []((emb_hist.quota \/ emb_hist.auth) => emb.mode = "mock")
    /\ [][(emb_hist.quota \/ emb_hist.auth) =>
             emb_hist'.remote_calls = emb_hist.remote_calls]_vars

\* C7 (amended): once a remote embedding call has failed with a quota
\* failure, the Embedder's mode is mock in every later state and no later
\* embed call issues a remote request.
C7_QuotaDowngradesForGood ==
    /\ [](emb_hist.quota => emb.mode = "mock")
    /\ [][emb_hist.quota => emb_hist'.remote_calls = emb_hist.remote_calls]_vars

C7_Witness ==
    /\ emb_hist.quota
    /\ emb_last.op = "embed" /\ emb_last.n > 0 /\ ~emb_last.remote

\* the mode the construction in auto mode is to end in: remote when the
\* credential is configured and accepted, else local when the local model
\* loads, else deterministic
FirstAvailableMode(c) ==
    IF c.api_key = "valid" /\ c.openai_lib THEN "openai"
    ELSE IF c.local_ok THEN "local"
    ELSE "mock"

\* C8: constructing an embedder with requested mode auto never raises and
\* ends in the first available mode of remote, local, deterministic; with a
\* missing or invalid credential the mode is local or deterministic.
C8_AutoSelectsFirstAvailable ==
    cfg.embed_mode = "auto" =>
        /\ svc.constructed => (~svc.raised /\ GetMode(svc) = FirstAvailableMode(cfg))
        /\ emb.constructed => emb.mode = FirstAvailableMode(cfg)

ModeDim(mode) ==
    IF mode = "openai" THEN DimRemote ELSE IF mode = "local" THEN DimLocal ELSE DimMock

\* C9: in every state of an embedder the reported dimension is the one of
\* its current mode (remote 1536, local 384, deterministic 384) and every
\* vector it returns has that length.
C9_DimensionOfMode ==
    /\ emb.constructed =>
          /\ emb.embedding_dimension = ModeDim(emb.mode)
          /\ emb_last.op = "embed" => emb_last.dims \subseteq {emb.embedding_dimension}
    /\ svc.constructed =>
          /\ svc.dimension = ModeDim(GetMode(svc))
          /\ emb_last.op = "svc_embed" => emb_last.dims \subseteq {svc.dimension}

----------------------------------------------------------------------------
(* Properties of QueryService.query                                        *)

C4_SingleBoundedRetry ==
    /\ q.searches <= 2
    /\ q.generates <= 2
    /\ q.retried => q.pc \in {"snippets", "done"}

C4_Witness ==
    /\ q.pc = "done" /\ q.retried
    /\ q.searches = 2 /\ q.generates = 2
    /\ ~ValidateAnswer(q.answer, q.citations)
    /\ q_resp.kind = "answer"

----------------------------------------------------------------------------
(* Properties of extract_snippet                                           *)

\* the rel_path resolves outside the repository root
Escapes(rel) ==
    LET candidate == AbsPath(JoinPath(Root, rel))
    IN  ~StartsWithRoot(candidate, Root) /\ candidate # Root

\* C10: extract_snippet called with a rel_path that resolves outside the
\* repository root raises the path-traversal error; it returns no window and
\* reads no file.
C10_TraversalRaises ==
    (snip.pc = "done" /\ Escapes(snip.args.rel)) =>
        (snip.result.kind = "raise" /\ snip.result.read = <<>>)

\* the file the call reads has lines start..end, and the context is not negative
InRange(a) ==
    /\ 1 <= a.start /\ a.start <= FileLines
    /\ 1 <= a.end /\ a.end <= FileLines
    /\ a.context_lines # NoArg => ArgValue(a.context_lines) >= 0

----------------------------------------------------------------------------
(* Properties of validate_answer                                           *)

\* C12: validate_answer returns true exactly when the answer is not empty and
\* (one of the citations is referenced in it as path:start-end or it contains
\* an uncertainty phrase); an uncertain answer with no citations is valid.
C12_ValidIffCitedOrUncertain ==
    va.pc = "done" =>
        (va.result <=> (~va.text.blank
                          /\ (va.text.refs \cap va.citations # {} \/ va.text.uncertain)))

----------------------------------------------------------------------------
(* Properties of search_multiple                                           *)

Merged == MergeResults(sm.answers, Len(sm.answers))

Elems(seq) == { seq[i] : i \in 1..Len(seq) }

\* C18: search_multiple returns the K highest-scoring entries of the merged
\* per-repository results (all of them when there are fewer than K), each
\* once, in descending order of score.
C18_TopKOfMerged ==
    sm.pc = "done" =>
        /\ Len(sm.result) = Min(Max(sm.k, 0), Len(Merged))
        /\ Elems(sm.result) \subseteq Elems(Merged)
        /\ Cardinality(Elems(sm.result)) = Len(sm.result)
        /\ \A a, b \in 1..Len(sm.result) : a < b => sm.result[a].score >= sm.result[b].score
        /\ \A x \in Elems(Merged) \ Elems(sm.result) :
              \A y \in Elems(sm.result) : x.score <= y.score

C18_Witness ==
    /\ sm.pc = "done"
    /\ Len(sm.answers) = 2
    /\ Len(Merged) > sm.k
    /\ Len(sm.result) = sm.k
    /\ sm.result[1].repo = 2
    /\ \E x \in Elems(Merged) : x.repo = 1 /\ x.score < sm.result[1].score

\* C21: the stores of two repositories with different identifiers, also of
\* identifiers that differ only in '/' against '_', are independent: loading,
\* adding to and deleting the second repository while the store of the first
\* is open leaves the files and the in-memory store of the first as they were, and the store loaded for the
\* second repository holds nothing that was added to the first.
SecondOps == {"load_second", "add_second", "delete_second"}

C21_StoresIndependent ==
    [][(vs.open /\ vs_last'.op \in SecondOps /\ nops' # nops)
          => /\ disk' = disk
             /\ vs' = vs
             /\ (vs_last'.op = "load_second" => second'.store.index = second.files.index.rows)]_vars

\* C22: the failure of a single file or of a single batch (read, decode,
\* embedding, add_chunks) does not abort _process_files: the call never ends
\* by raising, and when it returns its counters every file of the list has
\* been visited.
C22_BatchFailureDoesNotAbort ==
    /\ ing.pc # "raised"
    /\ (ing.pc = "done" => ing.i = ing.n)

\* C23: a generated text without any path:start-end reference makes every
\* retrieved chunk a citation, and a generate_answer call that was given at
\* least one retrieved chunk never returns an empty list of citations.
C23_NeverCitationFree ==
    cit.pc = "done" =>
        /\ (cit.result.kind = "remote" /\ cit.refs = <<>>
                => cit.result.citations = ChunkCitations(cit.chunks))
        /\ (cit.chunks # <<>> => cit.result.citations # <<>>)

\* C24: a citation parsed from the generated text has the path of a
\* retrieved chunk whose line range contains the cited start line, and lies
\* within that chunk: chunk.start_line <= start and end <= chunk.end_line.
C24_CitationsGrounded ==
    (cit.pc = "done" /\ cit.result.parsed) =>
        \A i \in 1..Len(cit.result.citations) :
            LET c  == cit.result.citations[i]
                ch == cit.chunks[c.chunk]
            IN  /\ ch.path = c.path
                /\ ch.start_line <= c.start /\ c.start <= ch.end_line
                /\ c.end <= ch.end_line

\* a chunker call made without overlap: chunk_file has none, the fallback
\* chunker is given chunk_overlap_tokens = 0
NoOverlap == chk.impl = "chunk_file" \/ chk.chunk_overlap_tokens = 0

\* C25: every chunk has 1 <= start_line <= end_line, and without overlap the
\* chunks of a file cover its lines without gaps: the first starts at line
\* 1, each next one starts at the previous end_line + 1, and the last ends
\* at the last line.
C25_ChunksCoverFile ==
    (chk.pc = "done" /\ chk.result.status = "ok") =>
        LET c == chk.result.chunks
        IN  /\ \A i \in 1..Len(c) : 1 <= c[i].start_line /\ c[i].start_line <= c[i].end_line
            /\ (NoOverlap /\ c # <<>>) =>
                  /\ c[1].start_line = 1
                  /\ \A i \in 1..(Len(c) - 1) : c[i + 1].start_line = c[i].end_line + 1
                  /\ c[Len(c)].end_line = Len(chk.lines)

\* the context_lines an extract_snippet call was given, when it was given
\* one that is not negative
GivenContext == snip.args.context_lines # NoArg /\ ArgValue(snip.args.context_lines) >= 0

\* C26: for every context_lines >= 0, 0 included, the window extract_snippet
\* returns is window_start = max(1, start - context_lines) and window_end =
\* min(total_lines, end + context_lines); with context_lines = 0 and a range
\* inside the file the window is exactly [start, end].
C26_ContextLinesHonoured ==
    (snip.pc = "done" /\ snip.result.kind = "window" /\ GivenContext) =>
        LET c == ArgValue(snip.args.context_lines)
        IN  /\ snip.result.window_start = Max(1, snip.args.start - c)
            /\ snip.result.window_end = Min(FileLines, snip.args.end + c)
            /\ (c = 0 /\ InRange(snip.args)) =>
                  /\ snip.result.window_start = snip.args.start
                  /\ snip.result.window_end = snip.args.end

\* the limit of a call: the max_chars it was given or the setting
MaxCharsOf(args) ==
    IF args.impl = "A" /\ args.max_chars # NoArg THEN ArgValue(args.max_chars)
    ELSE SnippetMaxChars

\* the length of the text of the window a call returned, before any trimming
WindowTextLen(r) == SliceLines(FileLines, r.window_start, r.window_end) * LineLen

\* C27: a window text longer than max_chars is returned as a prefix and a
\* suffix of about max_chars / 2 each around a visible "..." marker, at most
\* max_chars + 10 characters in all; a text within the limit is returned
\* unchanged.
C27_TruncationBounded ==
    (snip.pc = "done" /\ snip.result.kind = "window") =>
        LET r     == snip.result
            limit == MaxCharsOf(snip.args)
        IN  IF WindowTextLen(r) > limit
            THEN /\ r.marker
                 /\ r.len <= limit + 10
                 /\ r.head > 0 /\ r.head <= limit \div 2 + 1
                 /\ r.tail > 0 /\ r.tail <= limit \div 2 + 1
            ELSE r.len = WindowTextLen(r) /\ ~r.marker

\* C29: once the ingestion service has stored chunks for the repository, a
\* later query passes the empty-index precheck and searches an index that
\* holds the ingested vectors, also when the query service had opened the
\* repository's store through its own manager before the ingestion.
C29_IngestedDataVisible ==
    [][(vs_last'.op = "query" /\ nops' # nops /\ vs.open /\ Len(vs.index) > 0)
          => /\ vs_last'.status = "ok"
             /\ other'.index = vs.index]_vars

\* C30: with the Answerer in mock mode, a query with k >= 1 whose first
\* retrieval is not empty does not take the retry branch: retrieval and
\* generate_answer each run once.
C30_MockModeNoRetry ==
    (q.mock0 /\ q.k >= 1 /\ q.retrieved >= 1) =>
        /\ q.pc # "retry"
        /\ ~q.retried
        /\ q.searches <= 1
        /\ q.generates <= 1

====
